---- MODULE Spec2Model ----
(***************************************************************************)
(* A model of the Motr B+-tree engine of src/btree/btree.c.                *)
(*                                                                         *)
(* Segment memory is a map from node addresses to fixed-format nodes; a    *)
(* node is its header fields (level, used, the format tag) and its record  *)
(* area, a row of Cap physical slots.  Slots at and above `used' keep      *)
(* whatever the last memmove left in them, as the memory does.             *)
(* Keys are compared as the big-endian byte strings the callers store,     *)
(* that is, numerically.                                                   *)
(***************************************************************************)
EXTENDS Integers, Sequences, FiniteSets, TLC

(* ------------------------------ bounds -------------------------------- *)
\* records that fit in one node (node size / record size)
Cap == 3
\* keys are 1..MaxKey
MaxKey == 6
\* leaf values are 1..MaxVal
MaxVal == 2
\* node addresses are 1..MaxAddr
MaxAddr == 12

(* ------------------------- program constants -------------------------- *)
MAX_TRIALS == 3
NR_EVEN == -1
NR_MAX == -2
D_LEFT == 1
D_RIGHT == 2

Keys == 1..MaxKey
Vals == 1..MaxVal
Addrs == 1..MaxAddr
NoAddr == 0
\* a zeroed record slot, as m0_alloc_aligned() returns it
ZeroRec == <<0, 0>>

\* k applied to the value of e.  A bound variable holds a value, so e is
\* computed once however often k uses it, where TLC may compute a LET
\* definition or an operator argument anew at every use.  S0 below is the
\* state as an operator was handed it, S its value.
Bind(e, k(_)) == CHOOSE r \in {k(x) : x \in {e}} : TRUE

(* ------------------ fixed-format node operations -------------------- *)
\* the node image mem_node_alloc() + ff_init() leave: zeroed, valid tag
ff_init == [level |-> 0, used |-> 0, valid |-> TRUE,
            slots |-> [i \in 1..Cap |-> ZeroRec], alloc |-> TRUE]

ff_fini(n) == [n EXCEPT !.valid = FALSE]

ff_isvalid(n) == n.valid

ff_count(n) == IF n.level > 0 THEN n.used - 1 ELSE n.used

ff_count_rec(n) == n.used

\* free space, in records
ff_space(n) == Cap - n.used

ff_level(n) == n.level

\* an underflow test that never looks ahead
ff_isunderflow_now(n, predict) == n.used = 0

ff_isunderflow(n, predict) ==
    LET rec_count == IF predict /\ n.used # 0 THEN n.used - 1 ELSE n.used
    IN  rec_count = 0

ff_isoverflow(n) == ff_space(n) < 1

ff_isfit(n) == 1 <= ff_space(n)

\* the M0_PRE of ff_key()/ff_val(): idx addresses a slot of the node
ff_key_pre(n, idx) == (n.used = 0 /\ idx = 0) \/ (0 <= idx /\ idx <= n.used)

\* the record (key, value) at slot idx, idx counted from 0
ff_rec(n, idx) == n.slots[idx + 1]

ff_node_key(n, idx) == n.slots[idx + 1][1]

ff_child(n, idx) == n.slots[idx + 1][2]

\* memmove of slots idx..used-1 one slot up; slot idx keeps its old bytes
ff_make(n, idx) ==
    [n EXCEPT !.used = n.used + 1,
              !.slots = [i \in 1..Cap |->
                           IF i > idx + 1 /\ i <= n.used + 1
                           THEN n.slots[i - 1] ELSE n.slots[i]]]

\* memmove of slots idx+1..used-1 one slot down; the last slot keeps its bytes
ff_del(n, idx) ==
    [n EXCEPT !.used = n.used - 1,
              !.slots = [i \in 1..Cap |->
                           IF i >= idx + 1 /\ i <= n.used - 1
                           THEN n.slots[i + 1] ELSE n.slots[i]]]

\* a faulty ff_set_level(): the level of the header is left as it was
ff_set_level_keep(n, new_level) == n

ff_set_level(n, new_level) == [n EXCEPT !.level = new_level]

\* writing key and value into slot idx through the pointers node_rec() gave
rec_write(n, idx, k, v) == [n EXCEPT !.slots[idx + 1] = <<k, v>>]

\* writing the value alone: the key bytes of the slot stay as they were
val_write(n, idx, v) == [n EXCEPT !.slots[idx + 1][2] = v]

RECURSIVE ff_find_loop(_, _, _, _)
ff_find_loop(n, key, i, j) ==
    IF i + 1 < j
    THEN LET m == (i + j) \div 2
             k == ff_node_key(n, m)
         IN  IF k < key THEN ff_find_loop(n, key, m, j)
             ELSE IF k > key THEN ff_find_loop(n, key, i, m)
             ELSE [idx |-> m, found |-> TRUE]
    ELSE [idx |-> j, found |-> (i = j)]

\* a search that takes the last record of every node for a key
ff_find_all(n, key) == ff_find_loop(n, key, -1, ff_count_rec(n))

\* binary search: the first slot whose key is >= key, and whether it is equal
ff_find(n, key) == ff_find_loop(n, key, -1, ff_count(n))

RECURSIVE generic_move_loop(_, _, _, _, _, _)
generic_move_loop(src, tgt, dir, nr, srcidx, tgtidx) ==
    IF \/ nr = 0
       \/ (nr = NR_EVEN /\ ff_space(tgt) <= ff_space(src))
       \/ (nr = NR_MAX /\ (srcidx = -1 \/ ff_count_rec(src) = 0))
    THEN <<src, tgt>>
    ELSE IF ~ff_isfit(tgt) THEN <<src, tgt>>
    ELSE IF ~(srcidx < src.used /\ src.used > 0)
    THEN <<src, tgt, "ff_del: idx < ff_used && ff_used > 0">>
    ELSE LET r == ff_rec(src, srcidx)
         IN  Bind(rec_write(ff_make(tgt, tgtidx), tgtidx, r[1], r[2]),
                  LAMBDA t1 :
             Bind(ff_del(src, srcidx), LAMBDA s1 :
             generic_move_loop(s1, t1, dir,
                               IF nr > 0 THEN nr - 1 ELSE nr,
                               IF dir = D_LEFT THEN srcidx ELSE srcidx - 1,
                               IF dir = D_LEFT THEN tgtidx + 1 ELSE tgtidx)))

\* moves records between two node images; gives <<src', tgt'>>, with the
\* M0_PRE of ff_del() as a third element when the loop runs into it: the
\* loop ends on an empty source only under NR_MAX, and node_del() is what
\* stops it otherwise, after node_make() has opened a slot in the target
generic_move(src, tgt, dir, nr) ==
    generic_move_loop(src, tgt, dir, nr,
                      IF dir = D_LEFT THEN 0 ELSE ff_count_rec(src) - 1,
                      IF dir = D_LEFT THEN ff_count_rec(tgt) ELSE 0)

(* ------------------- node descriptors and the tree -------------------- *)
\* m0_time_now() at descriptor allocation: sequence numbers are only ever
\* compared for equality with a snapshot of the same descriptor
TimeNow == 1

\* freed (or never allocated) node memory
FreeMem == [level |-> 0, used |-> 0, valid |-> FALSE,
            slots |-> [i \in 1..Cap |-> ZeroRec], alloc |-> FALSE]

\* no descriptor: the opaque pointer of the node header is NULL
NoNd == [exists |-> FALSE, n_ref |-> 0, n_seq |-> 0, n_delayed_free |-> FALSE,
         list |-> "none", n_tree |-> FALSE, skip |-> FALSE]

\* A state S handed through the operators below is the record
\*   mem, nds, td, ah : node memory, descriptors, tree descriptor,
\*                      m0_btree::t_height of the shared tree handle
\*   c                : the context of the operation that is running
\*   fault            : "" or the assertion / invalid access that stopped it
\*   blocked          : the step needs a lock another thread holds
Fault(S, what) == IF S.fault = "" THEN [S EXCEPT !.fault = what] ELSE S

\* nothing more happens in a step that has stopped or is waiting
Dead(S) == S.fault # "" \/ S.blocked

\* tree_lock() directly followed by tree_unlock() inside one step
tree_lock(S0, lock_acquired) ==
    Bind(S0, LAMBDA S :
    IF lock_acquired \/ S.td.lock = 0 THEN S ELSE [S EXCEPT !.blocked = TRUE])

node_seq_cnt_update(S, a) == [S EXCEPT !.nds[a].n_seq = @ + 1]

\* a node_get() that hands out a descriptor in use without counting the
\* new reference
node_get_noref(S0, addr, lock_acquired) ==
    Bind(S0, LAMBDA S :
    IF Dead(S) THEN S
    ELSE IF addr \notin Addrs THEN Fault(S, "node_get: wild address")
    ELSE IF ~S.mem[addr].alloc THEN Fault(S, "node_get: freed node memory")
    ELSE IF S.nds[addr].exists
    THEN IF S.nds[addr].n_delayed_free
         THEN [S EXCEPT !.c.no_node = addr, !.c.nop_rc = "EACCES"]
         ELSE IF S.nds[addr].n_ref = 0
         THEN [tree_lock(S, lock_acquired) EXCEPT
                  !.c.no_node = addr,
                  !.nds[addr].n_ref = 1,
                  !.nds[addr].list = "active",
                  !.nds[addr].n_tree = TRUE]
         ELSE [S EXCEPT !.c.no_node = addr]
    ELSE [tree_lock(S, lock_acquired) EXCEPT
             !.c.no_node = addr,
             !.nds[addr] = [exists |-> TRUE, n_ref |-> 1, n_seq |-> TimeNow,
                            n_delayed_free |-> FALSE, list |-> "active",
                            n_tree |-> TRUE, skip |-> FALSE]])

node_get(S0, addr, lock_acquired) ==
    Bind(S0, LAMBDA S :
    IF Dead(S) THEN S
    ELSE IF addr \notin Addrs THEN Fault(S, "node_get: wild address")
    ELSE IF ~S.mem[addr].alloc THEN Fault(S, "node_get: freed node memory")
    ELSE IF S.nds[addr].exists
    THEN IF S.nds[addr].n_delayed_free
         THEN [S EXCEPT !.c.no_node = addr, !.c.nop_rc = "EACCES"]
         ELSE IF S.nds[addr].n_ref = 0
         THEN [tree_lock(S, lock_acquired) EXCEPT
                  !.c.no_node = addr,
                  !.nds[addr].n_ref = 1,
                  !.nds[addr].list = "active",
                  !.nds[addr].n_tree = TRUE]
         ELSE [S EXCEPT !.c.no_node = addr, !.nds[addr].n_ref = @ + 1]
    ELSE [tree_lock(S, lock_acquired) EXCEPT
             !.c.no_node = addr,
             !.nds[addr] = [exists |-> TRUE, n_ref |-> 1, n_seq |-> TimeNow,
                            n_delayed_free |-> FALSE, list |-> "active",
                            n_tree |-> TRUE, skip |-> FALSE]])

\* m0_free(node) and so_node_free(): descriptor and node memory are gone
nd_free(S, a) == [S EXCEPT !.nds[a] = NoNd, !.mem[a] = FreeMem]

mem_node_put(S0, a, lock_acquired) ==
    Bind(S0, LAMBDA S :
    IF S.nds[a].n_ref = 0 THEN Fault(S, "node_refcnt_update: n_ref == 0")
    ELSE IF S.nds[a].n_ref = 1
    THEN IF ~S.nds[a].n_tree THEN Fault(S, "mem_node_put: n_tree == NULL")
         ELSE [tree_lock(S, lock_acquired) EXCEPT
                  !.nds[a].n_ref = 0,
                  !.nds[a].n_seq = 0,
                  !.nds[a].list = "lru",
                  !.nds[a].n_tree = FALSE]
    ELSE [S EXCEPT !.nds[a].n_ref = @ - 1])

node_put(S0, a, lock_acquired) ==
    Bind(S0, LAMBDA S :
    IF Dead(S) THEN S
    ELSE IF ~S.nds[a].exists THEN Fault(S, "node_put: freed descriptor")
    ELSE Bind(mem_node_put(S, a, lock_acquired), LAMBDA S1 :
         IF S1.nds[a].n_delayed_free /\ S1.nds[a].n_ref = 0
            /\ S1.fault = ""
         THEN nd_free(S1, a) ELSE S1))

node_free(S0, a) ==
    Bind(S0, LAMBDA S :
    IF Dead(S) THEN S
    ELSE IF ~S.nds[a].exists THEN Fault(S, "node_free: freed descriptor")
    ELSE IF S.nds[a].n_ref = 0 THEN Fault(S, "node_refcnt_update: n_ref == 0")
    ELSE Bind([S EXCEPT !.nds[a].n_ref = @ - 1,
                        !.nds[a].n_delayed_free = TRUE,
                        !.mem[a] = ff_fini(@)], LAMBDA S1 :
         IF S1.nds[a].n_ref = 0 THEN nd_free(S1, a) ELSE S1))

\* m0_alloc_aligned(): some free address; the lowest one
mem_node_alloc(S) == CHOOSE a \in Addrs :
                        ~S.mem[a].alloc /\ \A b \in 1..(a - 1) : S.mem[b].alloc

\* so_node_alloc() + node_init() + node_get(); c.no_node is the new node
node_alloc(S0, lock_acquired) ==
    Bind(S0, LAMBDA S :
    IF Dead(S) THEN S
    ELSE IF \A a \in Addrs : S.mem[a].alloc THEN Fault(S, "mem_node_alloc: no memory")
    ELSE LET a == mem_node_alloc(S)
         IN  node_get([S EXCEPT !.mem[a] = ff_init], a, lock_acquired))

(* ------------------------ operation contexts -------------------------- *)
\* one struct level, as m0_alloc() zeroes it
NoLevel == [l_node |-> NoAddr, l_seq |-> 0, l_idx |-> 0, l_alloc |-> NoAddr,
            l_sibling |-> NoAddr, l_sib_seq |-> 0, l_freenode |-> FALSE]

\* struct m0_btree_op with its m0_btree_oimpl; phase P_DONE and op "none"
\* mean that the caller holds no operation
IdleCtx(id) ==
    [id |-> id, op |-> "none", key |-> 0, val |-> 0, cbrc |-> "0", dir |-> "eq",
     lockall |-> FALSE, phase |-> "P_DONE", stack |-> <<>>, sm_rc |-> "0",
     nop_rc |-> "0", no_node |-> NoAddr, i_used |-> 0, i_level |-> <<>>,
     i_pivot |-> -1, i_key_found |-> FALSE, i_extra_node |-> NoAddr,
     i_trial |-> 0, flags |-> "NONE", rkey |-> 0, rval |-> 0]

\* depth of the sub-operation stack of struct m0_sm_op
M0_SMOP_STACK_LEN == 4

m0_sm_op_sub(S0, state, ret_state) ==
    Bind(S0, LAMBDA S :
    IF Dead(S) THEN S
    ELSE IF Len(S.c.stack) >= M0_SMOP_STACK_LEN
    THEN Fault(S, "m0_sm_op_sub: stack overflow")
    ELSE [S EXCEPT !.c.stack = Append(@, ret_state), !.c.phase = state])

m0_sm_op_ret(S0) ==
    Bind(S0, LAMBDA S :
    IF Dead(S) THEN S
    ELSE IF S.c.stack = << >> THEN Fault(S, "m0_sm_op_ret: empty stack")
    ELSE [S EXCEPT !.c.phase = S.c.stack[Len(S.c.stack)],
                   !.c.stack = SubSeq(@, 1, Len(@) - 1)])

fail(S, rc) == m0_sm_op_sub([S EXCEPT !.c.sm_rc = rc], "P_CLEANUP", "P_FINI")

Goto(S0, state) ==
    Bind(S0, LAMBDA S :
    IF Dead(S) THEN S ELSE [S EXCEPT !.c.phase = state])

\* a tree lock that is given also while another thread holds it
lock_op_init_any(S0, nxt) ==
    Bind(S0, LAMBDA S :
    IF Dead(S) THEN S ELSE [S EXCEPT !.td.lock = S.c.id, !.c.phase = nxt])

\* a lock_op_unlock() that leaves the tree lock with its holder
lock_op_unlock_none(S0) == S0

lock_op_init(S0, nxt) ==
    Bind(S0, LAMBDA S :
    IF Dead(S) THEN S
    ELSE IF S.td.lock = 0
    THEN [S EXCEPT !.td.lock = S.c.id, !.c.phase = nxt]
    ELSE [S EXCEPT !.blocked = TRUE])

lock_op_unlock(S0) ==
    Bind(S0, LAMBDA S :
    IF Dead(S) THEN S
    ELSE IF S.td.lock # S.c.id THEN Fault(S, "unlock of a lock not held")
    ELSE [S EXCEPT !.td.lock = 0])

\* i_level[i] lies inside the array level_alloc() allocated
LevIn(S, i) == 0 <= i /\ i < Len(S.c.i_level)

Lev(S, i) == S.c.i_level[i + 1]

\* node_invariant(): the M0_PRE of every node_*() accessor
node_invariant(S, a) ==
    S.nds[a].skip \/ (S.mem[a].level > 0 => S.mem[a].used > 0)

level_alloc(S, height) ==
    [S EXCEPT !.c.i_level = [i \in 1..height |-> NoLevel]]

RECURSIVE level_cleanup_loop(_, _)
level_cleanup_loop(S, i) ==
    IF Dead(S) \/ i > S.c.i_used THEN S
    ELSE IF ~LevIn(S, i) THEN Fault(S, "level_cleanup: i_level out of bounds")
    ELSE LET l == Lev(S, i)
         IN  Bind(IF l.l_node # NoAddr
                  THEN [node_put(S, l.l_node, FALSE)
                           EXCEPT !.c.i_level[i + 1].l_node = NoAddr]
                  ELSE S, LAMBDA S1 :
             Bind(IF l.l_alloc # NoAddr
                  THEN [node_free(S1, l.l_alloc)
                           EXCEPT !.c.i_level[i + 1].l_alloc = NoAddr]
                  ELSE S1, LAMBDA S2 :
             Bind(IF l.l_sibling # NoAddr
                  THEN [node_put(S2, l.l_sibling, FALSE)
                           EXCEPT !.c.i_level[i + 1].l_sibling = NoAddr]
                  ELSE S2, LAMBDA S3 :
             level_cleanup_loop(S3, i + 1))))

level_cleanup(S) ==
    Bind(level_cleanup_loop(S, 0), LAMBDA S1 :
    [(IF S1.c.i_extra_node # NoAddr
      THEN [node_free(S1, S1.c.i_extra_node) EXCEPT !.c.i_extra_node = NoAddr]
      ELSE S1) EXCEPT !.c.i_level = << >>])

\* a faulty path_check(): a path passes whatever became of its nodes
path_check_loop_any(S, total_level) == TRUE

RECURSIVE path_check_loop(_, _)
\* the nodes of i_level[0..total_level] are valid and their sequence
\* numbers are the ones the descent recorded
path_check_loop(S, total_level) ==
    IF total_level < 0 THEN TRUE
    ELSE LET l == Lev(S, total_level)
         IN  IF ~ff_isvalid(S.mem[l.l_node]) THEN FALSE
             ELSE IF l.l_seq # S.nds[l.l_node].n_seq THEN FALSE
             ELSE path_check_loop(S, total_level - 1)

path_check(S) == path_check_loop(S, S.c.i_used)

\* every i_level[0..i_used].l_node path_check() reads is a live descriptor
path_check_pre(S) ==
    /\ LevIn(S, S.c.i_used)
    /\ \A i \in 0..S.c.i_used :
          Lev(S, i).l_node # NoAddr /\ S.nds[Lev(S, i).l_node].exists

(* ------------------------------- put ---------------------------------- *)
node_move(S0, src, tgt, dir, nr) ==
    Bind(S0, LAMBDA S :
    IF Dead(S) THEN S
    ELSE IF ~node_invariant(S, src) \/ ~node_invariant(S, tgt)
    THEN Fault(S, "node_move: node_invariant")
    ELSE LET r == generic_move(S.mem[src], S.mem[tgt], dir, nr)
         IN  IF Len(r) = 3 THEN Fault(S, r[3])
             ELSE
             [S EXCEPT !.mem[src] = r[1], !.mem[tgt] = r[2],
                       !.nds[src].n_seq = @ + 1, !.nds[tgt].n_seq = @ + 1])

\* the user's put callback (btree_kv_put_cb of the unit test, which may also
\* fail): on M0_BSC_SUCCESS it fills key and value in and returns cbrc
put_cb_rc(S, flags) == IF flags = "KEY_EXISTS" THEN "KEY_EXISTS" ELSE S.c.cbrc

\* a faulty split: the record always goes to the right node l_node
btree_put_split_and_find_right(S, l_alloc, l_node, key) ==
    Bind([S EXCEPT !.nds[l_alloc].skip = TRUE,
                   !.mem[l_alloc] = ff_set_level(@, ff_level(S.mem[l_node]))],
         LAMBDA S1 :
    Bind([node_move(S1, l_node, l_alloc, D_LEFT, NR_EVEN)
             EXCEPT !.nds[l_alloc].skip = FALSE], LAMBDA S3 :
    <<S3, l_node, ff_find(S3.mem[l_node], key).idx>>))

\* the slot for key after l_node's lower half has moved to l_alloc:
\* <<state, target node, target index>>
btree_put_split_and_find(S, l_alloc, l_node, key) ==
    Bind([S EXCEPT !.nds[l_alloc].skip = TRUE,
                   !.mem[l_alloc] = ff_set_level(@, ff_level(S.mem[l_node]))],
         LAMBDA S1 :
    Bind([node_move(S1, l_node, l_alloc, D_LEFT, NR_EVEN)
             EXCEPT !.nds[l_alloc].skip = FALSE], LAMBDA S3 :
    LET tgt == IF key < ff_node_key(S3.mem[l_node], 0) THEN l_alloc ELSE l_node
        n   == S3.mem[tgt]
    IN  IF ff_level(n) > 0 /\ tgt = l_alloc
           /\ key > ff_node_key(n, ff_count(n))
        THEN <<S3, tgt, ff_count(n) + 1>>
        ELSE <<S3, tgt, ff_find(n, key).idx>>))

\* new_rec is <<node, idx, child>>: its key is a pointer to the key in
\* slot idx of node, read when the record is copied; its value is child
btree_put_root_split_handle(S, new_rec) ==
    IF Dead(S) THEN S
    ELSE IF S.c.i_extra_node = NoAddr \/ Lev(S, 0).l_alloc = NoAddr
    THEN Fault(S, "root split: NULL spare node")
    ELSE
    LET root  == Lev(S, 0).l_node
        extra == S.c.i_extra_node
        curr_max_level == ff_level(S.mem[root])
    IN
    Bind([S EXCEPT !.nds[extra].skip = TRUE, !.nds[root].skip = TRUE,
                   !.mem[extra] = ff_set_level(@, curr_max_level),
                   !.mem[root] = ff_set_level(@, curr_max_level + 1)],
         LAMBDA S1 :
    Bind([node_move(S1, root, extra, D_RIGHT, NR_MAX)
             EXCEPT !.nds[extra].skip = FALSE], LAMBDA S2 :
    IF Dead(S2) THEN S2
    ELSE
    LET k == ff_node_key(S2.mem[new_rec[1]], new_rec[2])
    IN
    Bind([S2 EXCEPT !.mem[root] = rec_write(ff_make(@, 0), 0, k, new_rec[3]),
                    !.nds[root].skip = FALSE], LAMBDA S3 :
    Bind([S3 EXCEPT !.mem[root] = val_write(ff_make(@, 1), 1, extra),
                    !.nds[root].n_seq = @ + 1,
                    !.td.height = @ + 1], LAMBDA S4 :
    Bind([node_put(S4, Lev(S, 0).l_alloc, TRUE)
             EXCEPT !.c.i_level[1].l_alloc = NoAddr], LAMBDA S5 :
    Bind([node_put(S5, extra, TRUE) EXCEPT !.c.i_extra_node = NoAddr],
         LAMBDA S6 :
    m0_sm_op_sub(lock_op_unlock(S6), "P_CLEANUP", "P_FINI")))))))

RECURSIVE btree_put_makespace_loop(_, _, _)
\* for (i = i_used - 1; i >= 0; i--) of btree_put_makespace_phase():
\* below is the level whose l_alloc is put, new_rec goes into level i
btree_put_makespace_loop(S, i, new_rec) ==
    IF Dead(S) THEN S
    ELSE IF i < 0 THEN btree_put_root_split_handle(S, new_rec)
    ELSE IF Lev(S, i + 1).l_alloc = NoAddr
    THEN Fault(S, "makespace: NULL l_alloc")
    ELSE
    Bind([node_put(S, Lev(S, i + 1).l_alloc, TRUE)
             EXCEPT !.c.i_level[i + 2].l_alloc = NoAddr], LAMBDA S1 :
    LET lev == Lev(S, i)
        k   == ff_node_key(S1.mem[new_rec[1]], new_rec[2])
    IN  IF Dead(S1) THEN S1
        ELSE IF ff_isfit(S1.mem[lev.l_node])
        THEN m0_sm_op_sub(
                 lock_op_unlock(
                     [S1 EXCEPT
                         !.mem[lev.l_node] =
                             rec_write(ff_make(@, lev.l_idx), lev.l_idx,
                                       k, new_rec[3]),
                         !.nds[lev.l_node].n_seq = @ + 1]),
                 "P_CLEANUP", "P_FINI")
        ELSE IF lev.l_alloc = NoAddr THEN Fault(S1, "makespace: NULL l_alloc")
        ELSE Bind(btree_put_split_and_find(S1, lev.l_alloc, lev.l_node, k),
                  LAMBDA sf :
             IF Dead(sf[1]) THEN sf[1]
             ELSE Bind([sf[1] EXCEPT
                           !.mem[sf[2]] = rec_write(ff_make(@, sf[3]), sf[3],
                                                    k, new_rec[3]),
                           !.nds[sf[2]].n_seq = @ + 1], LAMBDA S3 :
                  btree_put_makespace_loop(
                      S3, i - 1,
                      <<lev.l_alloc, ff_count(S3.mem[lev.l_alloc]),
                        lev.l_alloc>>))))

btree_put_makespace_phase(S) ==
    IF Lev(S, S.c.i_used).l_alloc = NoAddr
    THEN Fault(S, "makespace: NULL l_alloc")
    ELSE
    LET lev == Lev(S, S.c.i_used)
    IN
    Bind(btree_put_split_and_find(S, lev.l_alloc, lev.l_node, S.c.key),
         LAMBDA sf :
    LET S1  == sf[1]
        tgt == sf[2]
        idx == sf[3]
    IN
    IF Dead(S1) THEN S1
    ELSE
    Bind([S1 EXCEPT !.mem[tgt] = ff_make(@, idx), !.c.flags = "SUCCESS"],
         LAMBDA S2 :
    LET rc == put_cb_rc(S2, "SUCCESS")
    IN  IF rc # "0"
        THEN Bind([S2 EXCEPT !.mem[tgt] = ff_del(@, idx),
                             !.nds[tgt].n_seq = @ + 1], LAMBDA S3 :
             fail(lock_op_unlock(
                      node_move(S3, lev.l_alloc, lev.l_node, D_RIGHT, NR_MAX)),
                  rc))
        ELSE Bind([S2 EXCEPT
                      !.mem[tgt] = rec_write(@, idx, S.c.key, S.c.val),
                      !.nds[tgt].n_seq = @ + 1], LAMBDA S3 :
             btree_put_makespace_loop(S3, S.c.i_used - 1,
                                      <<lev.l_node, 0, lev.l_alloc>>))))

\* m0_sm_op_sub() whose result the caller drops: only the return state is
\* pushed, the step goes on
sub_dropped(S0, ret_state) ==
    Bind(S0, LAMBDA S :
    IF Dead(S) THEN S
    ELSE IF Len(S.c.stack) >= M0_SMOP_STACK_LEN
    THEN Fault(S, "m0_sm_op_sub: stack overflow")
    ELSE [S EXCEPT !.c.stack = Append(@, ret_state)])

\* P_SETUP, the same in the four ticks
tick_SETUP(S) ==
    Goto([level_alloc(S, S.td.height) EXCEPT !.ah = S.td.height,
                                             !.c.i_key_found = FALSE],
         "P_LOCKALL")

\* P_DOWN: load the root
tick_DOWN(S) ==
    Goto(node_get([S EXCEPT !.c.i_used = 0, !.c.i_pivot = -1],
                  S.td.root, S.c.lockall),
         "P_NEXTDOWN")

tick_LOCKALL(S) ==
    IF S.c.lockall THEN lock_op_init(S, "P_DOWN") ELSE tick_DOWN(S)

tick_CLEANUP(S) == m0_sm_op_ret(level_cleanup(S))

tick_FINI(S) == Goto(S, "P_DONE")

\* P_CHECK when the path is no longer the one that was read
check_failed(S) ==
    LET S1 == [S EXCEPT !.c.i_trial = @ + 1]
    IN  IF S1.c.i_trial >= MAX_TRIALS /\ S1.c.lockall
        THEN fail(lock_op_unlock(S1), "ETOOMANYREFS")
        ELSE LET S2 == IF S1.c.i_trial >= MAX_TRIALS
                       THEN [S1 EXCEPT !.c.lockall = TRUE] ELSE S1
             IN  IF S2.ah # S2.td.height
                 THEN m0_sm_op_sub(lock_op_unlock(S2), "P_CLEANUP", "P_SETUP")
                 ELSE Goto(lock_op_unlock(S2), "P_LOCKALL")

\* P_NEXTDOWN of put and del up to the leaf: record the node and its sequence
\* number, look the key up, load the child.  At a leaf the phase is left
\* as "LEAF" for the caller to decide
nextdown(S) ==
    IF S.c.nop_rc # "0" THEN fail(S, S.c.nop_rc)
    ELSE IF ~LevIn(S, S.c.i_used)
    THEN Fault(S, "P_NEXTDOWN: i_level out of bounds")
    ELSE
    LET a  == S.c.no_node
        i  == S.c.i_used
        S1 == [S EXCEPT !.c.i_level[i + 1].l_node = a,
                        !.c.i_level[i + 1].l_seq = S.nds[a].n_seq,
                        !.c.no_node = NoAddr]
    IN
    Bind(IF ~ff_isvalid(S.mem[a]) THEN sub_dropped(S1, "P_SETUP") ELSE S1,
         LAMBDA S2 :
    IF Dead(S2) THEN S2
    ELSE IF ~node_invariant(S, a) THEN Fault(S2, "node_find: node_invariant")
    ELSE
    Bind(ff_find(S.mem[a], S.c.key), LAMBDA f :
    LET idx == IF ff_level(S.mem[a]) > 0 /\ f.found THEN f.idx + 1 ELSE f.idx
        S3  == [S2 EXCEPT !.c.i_key_found = f.found,
                          !.c.i_level[i + 1].l_idx = idx]
    IN  IF ff_level(S.mem[a]) > 0
        THEN IF ~(idx < S.mem[a].used) THEN Fault(S3, "ff_child: s_idx >= ff_used")
             ELSE Goto(node_get([S3 EXCEPT !.c.i_used = i + 1],
                                ff_child(S.mem[a], idx), S.c.lockall),
                       "P_NEXTDOWN")
        ELSE Goto(S3, "LEAF")))

put_NEXTDOWN(S) ==
    Bind(nextdown(S), LAMBDA S1 :
    IF Dead(S1) \/ S1.c.phase # "LEAF" THEN S1
    ELSE Goto(S1, IF S1.c.i_key_found THEN "P_LOCK" ELSE "P_ALLOC"))

\* a faulty P_ALLOC: it goes on to P_LOCK with no node set aside
btree_put_alloc_phase_none(S) ==
    [S EXCEPT !.c.i_used = S.ah - 1, !.c.phase = "P_LOCK"]

btree_put_alloc_phase(S) ==
    IF ~LevIn(S, S.c.i_used) THEN Fault(S, "P_ALLOC: i_level out of bounds")
    ELSE
    LET i   == S.c.i_used
        lev == Lev(S, i)
        retry == m0_sm_op_sub(
                    IF S.c.lockall
                    THEN lock_op_unlock([S EXCEPT !.c.i_used = S.ah - 1])
                    ELSE [S EXCEPT !.c.i_used = S.ah - 1],
                    "P_CLEANUP", "P_SETUP")
    IN  IF i = 0
        THEN IF S.c.i_extra_node = NoAddr \/ lev.l_alloc = NoAddr
             THEN IF S.c.no_node = NoAddr
                  THEN Goto(node_alloc(S, S.c.lockall), "P_ALLOC")
                  ELSE IF S.c.nop_rc = "0"
                  THEN IF S.c.i_extra_node = NoAddr
                       THEN [S EXCEPT !.c.i_extra_node = S.c.no_node,
                                      !.c.no_node = NoAddr,
                                      !.c.phase = "P_ALLOC"]
                       ELSE [S EXCEPT !.c.i_level[1].l_alloc = S.c.no_node,
                                      !.c.no_node = NoAddr,
                                      !.c.phase = "P_ALLOC"]
                  ELSE retry
             ELSE [S EXCEPT !.c.i_used = S.ah - 1, !.c.phase = "P_LOCK"]
        ELSE IF S.c.no_node = NoAddr
             THEN Goto(node_alloc(S, S.c.lockall), "P_ALLOC")
             ELSE IF S.c.nop_rc = "0"
             THEN [S EXCEPT !.c.i_level[i + 1].l_alloc = S.c.no_node,
                            !.c.no_node = NoAddr,
                            !.c.i_used = i - 1,
                            !.c.phase = "P_ALLOC"]
             ELSE retry

RECURSIVE put_ALLOC(_)
\* the do-while of P_ALLOC: climb while the nodes would overflow
put_ALLOC(S) ==
    IF Dead(S) THEN S
    ELSE IF ~LevIn(S, S.c.i_used) \/ Lev(S, S.c.i_used).l_node = NoAddr
    THEN Fault(S, "P_ALLOC: i_level out of bounds")
    ELSE
    LET lev == Lev(S, S.c.i_used)
    IN
    Bind(IF ~ff_isvalid(S.mem[lev.l_node])
         THEN sub_dropped([S EXCEPT !.c.i_used = S.ah - 1], "P_SETUP")
         ELSE S, LAMBDA S1 :
    LET done == [S1 EXCEPT !.c.i_used = S1.ah - 1, !.c.phase = "P_LOCK"]
    IN  IF Dead(S1) THEN S1
        ELSE IF ~node_invariant(S1, lev.l_node)
        THEN Fault(S1, "node_isoverflow: node_invariant")
        ELSE IF ~ff_isoverflow(S1.mem[lev.l_node]) THEN done
        ELSE IF S1.c.i_used = 0
        THEN IF lev.l_alloc = NoAddr \/ S1.c.i_extra_node = NoAddr
             THEN btree_put_alloc_phase(S1) ELSE done
        ELSE IF lev.l_alloc = NoAddr THEN btree_put_alloc_phase(S1)
        ELSE Bind([S1 EXCEPT !.c.i_used = @ - 1], LAMBDA S2 : put_ALLOC(S2)))

put_ACT(S0) ==
    Bind(S0, LAMBDA S :
    LET lev == Lev(S, S.c.i_used)
        S1  == [S EXCEPT !.c.flags = "SUCCESS"]
        rc  == put_cb_rc(S1, "SUCCESS")
    IN  IF rc # "0"
        THEN fail(lock_op_unlock(
                     [S1 EXCEPT !.mem[lev.l_node] = ff_del(@, lev.l_idx),
                                !.nds[lev.l_node].n_seq = @ + 1]), rc)
        ELSE m0_sm_op_sub(lock_op_unlock(
                     [S1 EXCEPT !.mem[lev.l_node] =
                                    rec_write(@, lev.l_idx, S.c.key, S.c.val),
                                !.nds[lev.l_node].n_seq = @ + 1]),
                          "P_CLEANUP", "P_FINI"))

\* a faulty P_MAKESPACE: the value of a key that exists is overwritten
put_MAKESPACE_upsert(S) ==
    LET lev == Lev(S, S.c.i_used)
    IN  IF S.c.i_key_found
        THEN LET S1 == [S EXCEPT !.c.flags = "KEY_EXISTS",
                                 !.mem[lev.l_node] =
                                     val_write(@, lev.l_idx, S.c.val)]
                 rc == put_cb_rc(S1, "KEY_EXISTS")
             IN  IF rc # "0" THEN fail(lock_op_unlock(S1), rc)
                 ELSE m0_sm_op_sub(lock_op_unlock(S1), "P_CLEANUP", "P_FINI")
        ELSE IF ~ff_isfit(S.mem[lev.l_node]) THEN btree_put_makespace_phase(S)
        ELSE put_ACT([S EXCEPT !.mem[lev.l_node] = ff_make(@, lev.l_idx)])

put_MAKESPACE(S) ==
    IF S.c.i_key_found
    THEN LET S1 == [S EXCEPT !.c.flags = "KEY_EXISTS"]
             rc == put_cb_rc(S1, "KEY_EXISTS")
         IN  IF rc # "0" THEN fail(lock_op_unlock(S1), rc)
             ELSE m0_sm_op_sub(lock_op_unlock(S1), "P_CLEANUP", "P_FINI")
    ELSE LET lev == Lev(S, S.c.i_used)
         IN  IF ~ff_isfit(S.mem[lev.l_node]) THEN btree_put_makespace_phase(S)
             ELSE put_ACT([S EXCEPT !.mem[lev.l_node] = ff_make(@, lev.l_idx)])

put_CHECK(S) ==
    IF Dead(S) THEN S
    ELSE IF ~path_check_pre(S) THEN Fault(S, "path_check: bad i_level entry")
    ELSE IF ~path_check(S) THEN check_failed(S)
    ELSE put_MAKESPACE(S)

tick_LOCK(S, check) ==
    IF S.c.lockall THEN check ELSE lock_op_init(S, "P_CHECK")

btree_put_kv_tick(S) ==
    CASE S.c.phase = "P_INIT"     -> Goto(S, "P_SETUP")
      [] S.c.phase = "P_SETUP"    -> tick_SETUP(S)
      [] S.c.phase = "P_LOCKALL"  -> tick_LOCKALL(S)
      [] S.c.phase = "P_DOWN"     -> tick_DOWN(S)
      [] S.c.phase = "P_NEXTDOWN" -> put_NEXTDOWN(S)
      [] S.c.phase = "P_ALLOC"    -> put_ALLOC(S)
      [] S.c.phase = "P_LOCK"     -> tick_LOCK(S, put_CHECK(S))
      [] S.c.phase = "P_CHECK"    -> put_CHECK(S)
      [] S.c.phase = "P_CLEANUP"  -> tick_CLEANUP(S)
      [] S.c.phase = "P_FINI"     -> tick_FINI(S)

(* ------------------------------- del ---------------------------------- *)
\* the user's delete callback (btree_kv_del_cb of the unit test returns the
\* flags it is shown; a callback may also fail on M0_BSC_SUCCESS)
del_cb_rc(S, flags) == IF flags = "KEY_NOT_FOUND" THEN "KEY_NOT_FOUND" ELSE S.c.cbrc

RECURSIVE root_child_is_req_loop(_, _)
root_child_is_req_loop(S, used_count) ==
    LET n == S.mem[Lev(S, used_count).l_node]
    IN  IF ~ff_isvalid(n) THEN -1
        ELSE IF used_count = 0 THEN (IF ff_count_rec(n) = 2 THEN 1 ELSE 0)
        ELSE IF ~ff_isunderflow(n, TRUE) THEN 0
        ELSE root_child_is_req_loop(S, used_count - 1)

root_child_is_req(S) == root_child_is_req_loop(S, S.c.i_used)

root_case_handle(S) ==
    LET load == root_child_is_req(S)
        S1   == IF load = -1 THEN sub_dropped(S, "P_SETUP") ELSE S
        root_lev == Lev(S, 0)
        idx  == IF root_lev.l_idx = 0 THEN 1 ELSE 0
        root == S.mem[root_lev.l_node]
    IN  IF Dead(S1) THEN S1
        ELSE IF load # 0
        THEN IF ~(idx < root.used) THEN Fault(S1, "ff_child: s_idx >= ff_used")
             ELSE Goto(node_get(S1, ff_child(root, idx), S.c.lockall),
                       "P_STORE_CHILD")
        ELSE Goto(S1, "P_LOCK")

del_NEXTDOWN(S) ==
    Bind(nextdown(S), LAMBDA S1 :
    IF Dead(S1) \/ S1.c.phase # "LEAF" THEN S1
    ELSE IF ~S1.c.i_key_found THEN Goto(S1, "P_LOCK")
    ELSE IF S1.c.i_used > 0
            /\ ff_count_rec(S1.mem[Lev(S1, 0).l_node]) = 2
    THEN root_case_handle(S1)
    ELSE Goto(S1, "P_LOCK"))

child_node_check(S) ==
    IF S.c.i_used = 0 THEN TRUE
    ELSE LET l_node == Lev(S, 1).l_sibling
         IN  IF l_node = NoAddr THEN TRUE
             ELSE /\ ff_isvalid(S.mem[l_node])
                  /\ Lev(S, 1).l_sib_seq = S.nds[l_node].n_seq

\* the tail of btree_del_resolve_underflow(): the root is left with one child
del_root_case(S0) ==
    Bind(S0, LAMBDA S :
    LET root == Lev(S, 0).l_node
        curr_root_level == ff_level(S.mem[root])
        root_child == Lev(S, 1).l_sibling
    IN  IF root_child = NoAddr \/ ~S.nds[root_child].exists
        THEN Fault(S, "resolve_underflow: root child not loaded")
        ELSE
        LET S1 == [S EXCEPT !.mem[root] = ff_set_level(ff_del(@, 0),
                                                       curr_root_level - 1),
                            !.nds[root_child].skip = TRUE,
                            !.td.height = @ - 1]
        IN  Bind(node_move(S1, root_child, root, D_RIGHT, NR_MAX), LAMBDA S2 :
            LET S3 == [S2 EXCEPT !.nds[root].skip = FALSE,
                                 !.nds[root_child].skip = FALSE,
                                 !.c.i_level[2].l_sibling = NoAddr]
            IN  IF Dead(S2) THEN S2
                ELSE IF ff_count_rec(S2.mem[root_child]) # 0
                THEN Fault(S2, "resolve_underflow: root child not emptied")
                ELSE Goto(node_free(lock_op_unlock(S3), root_child),
                          "P_FREENODE")))

RECURSIVE btree_del_resolve_underflow_loop(_, _)
\* the do-while of btree_del_resolve_underflow(); used_count is the level
\* that underflowed
btree_del_resolve_underflow_loop(S0, used_count) ==
    Bind(S0, LAMBDA S :
    IF Dead(S) THEN S
    ELSE
    LET up   == used_count - 1
        lev  == Lev(S, up)
        S1   == [S EXCEPT !.c.i_level[used_count + 1].l_freenode = TRUE,
                          !.mem[lev.l_node] = ff_del(@, lev.l_idx),
                          !.nds[lev.l_node].skip = TRUE]
        n    == S1.mem[lev.l_node]
        zero == up = 0 /\ ff_count_rec(n) = 0
        flag == up = 0 /\ (ff_count_rec(n) > 1 \/ ff_count_rec(n) = 0)
        S2   == IF zero
                THEN [S1 EXCEPT !.mem[lev.l_node] = ff_set_level(@, 0),
                                !.td.height = 1]
                ELSE S1
        S3   == [S2 EXCEPT !.nds[lev.l_node].n_seq = @ + 1,
                           !.nds[lev.l_node].skip = FALSE]
    IN  IF ~(lev.l_idx < S.mem[lev.l_node].used)
        THEN Fault(S, "ff_del: idx >= ff_used")
        ELSE IF up = 0 /\ ff_count_rec(n) = 1 THEN del_root_case(S1)
        ELSE IF flag \/ ~ff_isunderflow(S3.mem[lev.l_node], FALSE)
        THEN Goto(lock_op_unlock(S3), "P_FREENODE")
        ELSE btree_del_resolve_underflow_loop(S3, up))

btree_del_resolve_underflow(S) ==
    btree_del_resolve_underflow_loop(S, S.c.i_used)

\* a faulty P_ACT of delete: the record at the slot the search stopped at
\* is deleted whether or not its key is the one asked for
del_ACT_blind(S) ==
    LET lev == Lev(S, S.c.i_used)
        n   == S.mem[lev.l_node]
        S1  == IF lev.l_idx < n.used
               THEN [S EXCEPT !.mem[lev.l_node] = ff_del(@, lev.l_idx),
                              !.nds[lev.l_node].n_seq = @ + 1]
               ELSE S
        S2  == [S1 EXCEPT !.c.flags = IF S.c.i_key_found THEN "SUCCESS"
                                      ELSE "KEY_NOT_FOUND"]
    IN  m0_sm_op_sub(lock_op_unlock(S2), "P_CLEANUP", "P_FINI")

del_ACT(S) ==
    IF ~S.c.i_key_found
    THEN LET S1 == [S EXCEPT !.c.flags = "KEY_NOT_FOUND"]
             rc == del_cb_rc(S1, "KEY_NOT_FOUND")
         IN  IF rc # "0" THEN fail(lock_op_unlock(S1), rc)
             ELSE m0_sm_op_sub(lock_op_unlock(S1), "P_CLEANUP", "P_FINI")
    ELSE
    LET lev == Lev(S, S.c.i_used)
        S1  == [S EXCEPT !.mem[lev.l_node] = ff_del(@, lev.l_idx),
                         !.nds[lev.l_node].skip = TRUE,
                         !.nds[lev.l_node].n_seq = @ + 1,
                         !.c.flags = "SUCCESS"]
        rc  == del_cb_rc(S1, "SUCCESS")
        S2  == [S1 EXCEPT !.nds[lev.l_node].skip = FALSE]
    IN  IF rc # "0" THEN fail(lock_op_unlock(S1), rc)
        ELSE IF S.c.i_used = 0 \/ ~ff_isunderflow(S1.mem[lev.l_node], FALSE)
        THEN m0_sm_op_sub(lock_op_unlock(S2), "P_CLEANUP", "P_FINI")
        ELSE btree_del_resolve_underflow(S2)

del_CHECK(S) ==
    IF Dead(S) THEN S
    ELSE IF ~path_check_pre(S) THEN Fault(S, "path_check: bad i_level entry")
    ELSE IF ~path_check(S) \/ ~child_node_check(S) THEN check_failed(S)
    ELSE del_ACT(S)

del_STORE_CHILD(S) ==
    IF ~LevIn(S, 1) THEN Fault(S, "P_STORE_CHILD: i_level out of bounds")
    ELSE
    LET a  == S.c.no_node
        S1 == [S EXCEPT !.c.i_level[2].l_sibling = a,
                        !.c.i_level[2].l_sib_seq = S.nds[a].n_seq]
    IN  Bind(IF ~ff_isvalid(S.mem[a]) THEN sub_dropped(S1, "P_SETUP") ELSE S1,
             LAMBDA S2 : tick_LOCK(S2, del_CHECK(S2)))

del_FREENODE(S) ==
    IF ~LevIn(S, S.c.i_used) THEN Fault(S, "P_FREENODE: i_level out of bounds")
    ELSE
    LET i   == S.c.i_used
        lev == Lev(S, i)
    IN  IF lev.l_freenode
        THEN IF i = 0 THEN Fault(S, "P_FREENODE: i_used == 0")
             ELSE Goto(node_free([S EXCEPT !.c.i_used = i - 1,
                                           !.c.i_level[i + 1].l_node = NoAddr],
                                 lev.l_node),
                       "P_FREENODE")
        ELSE m0_sm_op_sub([S EXCEPT !.c.i_used = S.ah - 1],
                          "P_CLEANUP", "P_FINI")

btree_del_kv_tick(S) ==
    CASE S.c.phase = "P_INIT"        -> Goto(S, "P_SETUP")
      [] S.c.phase = "P_SETUP"       -> tick_SETUP(S)
      [] S.c.phase = "P_LOCKALL"     -> tick_LOCKALL(S)
      [] S.c.phase = "P_DOWN"        -> tick_DOWN(S)
      [] S.c.phase = "P_NEXTDOWN"    -> del_NEXTDOWN(S)
      [] S.c.phase = "P_STORE_CHILD" -> del_STORE_CHILD(S)
      [] S.c.phase = "P_LOCK"        -> tick_LOCK(S, del_CHECK(S))
      [] S.c.phase = "P_CHECK"       -> del_CHECK(S)
      [] S.c.phase = "P_FREENODE"    -> del_FREENODE(S)
      [] S.c.phase = "P_CLEANUP"     -> tick_CLEANUP(S)
      [] S.c.phase = "P_FINI"        -> tick_FINI(S)

(* ------------------------------- get ---------------------------------- *)
\* a faulty delivery: the callback is given the first record of the node
cb_rec_first(S, a, idx) ==
    IF Dead(S) THEN S
    ELSE [S EXCEPT !.c.flags = "SUCCESS",
                   !.c.rkey = ff_rec(S.mem[a], 0)[1],
                   !.c.rval = ff_rec(S.mem[a], 0)[2]]

\* node_rec() handed to the user's callback, which copies key and value out
cb_rec(S, a, idx) ==
    IF Dead(S) THEN S
    ELSE IF ~ff_key_pre(S.mem[a], idx) THEN Fault(S, "ff_key: idx out of range")
    ELSE [S EXCEPT !.c.flags = "SUCCESS",
                   !.c.rkey = ff_rec(S.mem[a], idx)[1],
                   !.c.rval = ff_rec(S.mem[a], idx)[2]]

cb_flags(S, flags) == IF Dead(S) THEN S ELSE [S EXCEPT !.c.flags = flags]

get_NEXTDOWN(S) ==
    Bind(nextdown(S), LAMBDA S1 :
    IF Dead(S1) \/ S1.c.phase # "LEAF" THEN S1
    ELSE [S1 EXCEPT !.c.phase = "P_LOCK", !.c.no_node = S.c.no_node])

RECURSIVE sibling_descend(_, _, _, _)
\* the while (i != oi->i_used) of btree_sibling_first_key_get()
sibling_descend(S0, node, idx, i) ==
    Bind(S0, LAMBDA S :
    IF Dead(S) THEN S
    ELSE IF i = S.c.i_used THEN cb_rec(S, node, idx)
    ELSE IF ~(idx < S.mem[node].used)
    THEN Fault(S, "ff_child: s_idx >= ff_used")
    ELSE LET child == ff_child(S.mem[node], idx)
         IN  Bind(node_get(S, child, TRUE), LAMBDA S1 :
             IF Dead(S1) THEN S1
             ELSE sibling_descend(
                      [S1 EXCEPT !.c.i_level[i + 2].l_sibling = child],
                      child, 0, i + 1)))

\* a slant lookup that never looks beyond the leaf its descent reached
btree_sibling_first_key_get_none(S, i) == cb_flags(S, "KEY_NOT_FOUND")

RECURSIVE btree_sibling_first_key_get(_, _)
btree_sibling_first_key_get(S, i) ==
    IF i < 0 THEN cb_flags(S, "KEY_NOT_FOUND")
    ELSE LET lev == Lev(S, i)
         IN  IF lev.l_idx < ff_count(S.mem[lev.l_node])
             THEN sibling_descend([S EXCEPT !.c.no_node = lev.l_node],
                                  lev.l_node, lev.l_idx + 1, i)
             ELSE btree_sibling_first_key_get(S, i - 1)

get_ACT(S) ==
    LET lev == Lev(S, S.c.i_used)
        S1  == IF S.c.dir = "eq"
               THEN IF S.c.i_key_found THEN cb_rec(S, lev.l_node, lev.l_idx)
                    ELSE cb_flags(S, "KEY_NOT_FOUND")
               ELSE IF lev.l_idx < ff_count(S.mem[lev.l_node])
                    THEN cb_rec(S, lev.l_node, lev.l_idx)
                    ELSE btree_sibling_first_key_get(S, S.c.i_used - 1)
    IN  m0_sm_op_sub(lock_op_unlock(S1), "P_CLEANUP", "P_FINI")

get_CHECK(S) ==
    IF Dead(S) THEN S
    ELSE IF ~path_check_pre(S) THEN Fault(S, "path_check: bad i_level entry")
    ELSE IF ~path_check(S) THEN check_failed(S)
    ELSE get_ACT(S)

btree_get_kv_tick(S) ==
    CASE S.c.phase = "P_INIT"     -> Goto(S, "P_SETUP")
      [] S.c.phase = "P_SETUP"    -> tick_SETUP(S)
      [] S.c.phase = "P_LOCKALL"  -> tick_LOCKALL(S)
      [] S.c.phase = "P_DOWN"     -> tick_DOWN(S)
      [] S.c.phase = "P_NEXTDOWN" -> get_NEXTDOWN(S)
      [] S.c.phase = "P_LOCK"     -> tick_LOCK(S, get_CHECK(S))
      [] S.c.phase = "P_CHECK"    -> get_CHECK(S)
      [] S.c.phase = "P_CLEANUP"  -> tick_CLEANUP(S)
      [] S.c.phase = "P_FINI"     -> tick_FINI(S)

(* ------------------------------- iter --------------------------------- *)
sibling_index_get(index, dir, key_exists) ==
    IF dir = "next" THEN (IF key_exists THEN index + 1 ELSE index)
    ELSE index - 1

index_is_valid(S, lev) ==
    lev.l_idx >= 0 /\ lev.l_idx < ff_count(S.mem[lev.l_node])

iter_NEXTDOWN(S) ==
    IF S.c.nop_rc # "0" THEN fail(S, S.c.nop_rc)
    ELSE IF ~LevIn(S, S.c.i_used)
    THEN Fault(S, "P_NEXTDOWN: i_level out of bounds")
    ELSE
    LET a   == S.c.no_node
        i   == S.c.i_used
        n   == S.mem[a]
        S1  == [S EXCEPT !.c.i_level[i + 1].l_node = a,
                         !.c.i_level[i + 1].l_seq = S.nds[a].n_seq]
    IN
    Bind(IF ~ff_isvalid(n) THEN sub_dropped(S1, "P_SETUP") ELSE S1,
         LAMBDA S2 :
    IF Dead(S2) THEN S2
    ELSE IF ~node_invariant(S, a) THEN Fault(S2, "node_find: node_invariant")
    ELSE
    Bind(ff_find(n, S.c.key), LAMBDA f :
        IF ff_level(n) > 0
        THEN LET idx == IF f.found THEN f.idx + 1 ELSE f.idx
                 piv == \/ (S.c.dir = "next" /\ idx < ff_count(n))
                        \/ (S.c.dir = "prev" /\ idx > 0)
                 S3  == [S2 EXCEPT !.c.i_key_found = f.found,
                                   !.c.i_level[i + 1].l_idx = idx,
                                   !.c.i_pivot = IF piv THEN i ELSE @,
                                   !.c.i_used = i + 1]
             IN  IF ~(idx < n.used) THEN Fault(S2, "ff_child: s_idx >= ff_used")
                 ELSE Goto(node_get(S3, ff_child(n, idx), S.c.lockall),
                           "P_NEXTDOWN")
        ELSE
        LET lidx == sibling_index_get(f.idx, S.c.dir, f.found)
            S3   == [S2 EXCEPT !.c.i_key_found = f.found,
                               !.c.i_level[i + 1].l_idx = lidx]
            plev == Lev(S3, S3.c.i_pivot)
            pn   == S3.mem[plev.l_node]
            sidx == sibling_index_get(plev.l_idx, S.c.dir, TRUE)
        IN  IF index_is_valid(S3, Lev(S3, i)) \/ S3.c.i_pivot = -1
            THEN Goto(S3, "P_LOCK")
            ELSE IF ~ff_isvalid(pn)
            THEN m0_sm_op_sub([S3 EXCEPT !.c.lockall = TRUE],
                              "P_CLEANUP", "P_SETUP")
            ELSE IF plev.l_seq # S3.nds[plev.l_node].n_seq
            THEN m0_sm_op_sub([S3 EXCEPT !.c.lockall = TRUE],
                              "P_CLEANUP", "P_SETUP")
            ELSE IF ~(0 <= sidx /\ sidx < pn.used)
            THEN Fault(S3, "ff_child: s_idx >= ff_used")
            ELSE Goto(node_get([S3 EXCEPT !.c.i_pivot = @ + 1],
                               ff_child(pn, sidx), S.c.lockall),
                      "P_SIBLING")))

iter_SIBLING(S) ==
    IF S.c.nop_rc # "0" THEN fail(S, S.c.nop_rc)
    ELSE IF ~LevIn(S, S.c.i_pivot)
    THEN Fault(S, "P_SIBLING: i_level out of bounds")
    ELSE
    LET a  == S.c.no_node
        n  == S.mem[a]
        S1 == [S EXCEPT !.c.i_level[S.c.i_pivot + 1].l_sibling = a,
                        !.c.i_level[S.c.i_pivot + 1].l_sib_seq = S.nds[a].n_seq]
        idx == IF S.c.dir = "next" THEN 0 ELSE ff_count(n)
    IN  IF ~ff_isvalid(n) THEN m0_sm_op_sub(S1, "P_CLEANUP", "P_SETUP")
        ELSE IF ff_level(n) > 0
        THEN IF ~node_invariant(S, a)
             THEN Fault(S1, "node_count: node_invariant")
             ELSE Goto(node_get([S1 EXCEPT !.c.i_pivot = @ + 1],
                                ff_child(n, idx), S.c.lockall),
                       "P_SIBLING")
        ELSE Goto(S1, "P_LOCK")

sibling_node_check(S) ==
    LET l_sibling == Lev(S, S.c.i_used).l_sibling
    IN  IF l_sibling = NoAddr \/ S.c.i_pivot = -1 THEN TRUE
        ELSE /\ ff_isvalid(S.mem[l_sibling])
             /\ Lev(S, S.c.i_used).l_sib_seq = S.nds[l_sibling].n_seq

iter_ACT(S) ==
    LET lev == Lev(S, S.c.i_used)
        S1  == IF index_is_valid(S, lev) THEN cb_rec(S, lev.l_node, lev.l_idx)
               ELSE IF S.c.i_pivot = -1 THEN cb_flags(S, "KEY_BTREE_BOUNDARY")
               ELSE IF lev.l_sibling = NoAddr
               THEN Fault(S, "P_ACT: NULL l_sibling")
               ELSE cb_rec(S, lev.l_sibling,
                           IF S.c.dir = "next" THEN 0
                           ELSE ff_count(S.mem[lev.l_sibling]) - 1)
    IN  m0_sm_op_sub(lock_op_unlock(S1), "P_CLEANUP", "P_FINI")

iter_CHECK(S) ==
    IF Dead(S) THEN S
    ELSE IF ~path_check_pre(S) THEN Fault(S, "path_check: bad i_level entry")
    ELSE IF ~path_check(S) \/ ~sibling_node_check(S) THEN check_failed(S)
    ELSE iter_ACT(S)

btree_iter_kv_tick(S) ==
    CASE S.c.phase = "P_INIT"     -> Goto(S, "P_SETUP")
      [] S.c.phase = "P_SETUP"    -> tick_SETUP(S)
      [] S.c.phase = "P_LOCKALL"  -> tick_LOCKALL(S)
      [] S.c.phase = "P_DOWN"     -> tick_DOWN(S)
      [] S.c.phase = "P_NEXTDOWN" -> iter_NEXTDOWN(S)
      [] S.c.phase = "P_SIBLING"  -> iter_SIBLING(S)
      [] S.c.phase = "P_LOCK"     -> tick_LOCK(S, iter_CHECK(S))
      [] S.c.phase = "P_CHECK"    -> iter_CHECK(S)
      [] S.c.phase = "P_CLEANUP"  -> tick_CLEANUP(S)
      [] S.c.phase = "P_FINI"     -> tick_FINI(S)

(* ----------------------- the tree descriptor pool --------------------- *)
\* slots of the static array trees[]
M0_TREE_COUNT == 20
\* sizeof trees_in_use[0], a uint64_t, in bytes, and its width in bits
SizeofWord == 8
WordBits == 64

\* the element count of a bitmap of NUM bits; the macro is not part of
\* btree.c, this is the round-up the declaration of trees_in_use implies
ARRAY_SIZE_FOR_BITS(NUM, BITS) == (NUM + (BITS - 1)) \div BITS

Slots == 0..(M0_TREE_COUNT - 1)
Words == 0..(ARRAY_SIZE_FOR_BITS(M0_TREE_COUNT, SizeofWord) - 1)
\* a NULL struct td pointer
NoTree == -1

\* one struct td as the static array holds it at start: all zero
NoTd == [t_ref |-> 0, t_root |-> NoAddr, t_height |-> 0, lock |-> 0]

\* a struct m0_btree the caller has none of, or one that was freed
NoArbor == [t_desc |-> NoTree, t_height |-> 0]

\* the tree module and its callers over the threads T
\*   trees, trees_in_use, trees_loaded : the statics of btree.c; a word of
\*                  trees_in_use is the set of its bits that are 1
\*   n_tree       : per node, nd::n_tree of its descriptor
\*   act          : per slot, the nodes on td::t_active_nds
\*   arbor        : per root address, the caller's struct m0_btree
\*   top          : per thread, the root address its operation was given,
\*                  node_op::no_tree, and the value the callers' account
\*                  had under the key of the operation when it began
\*   opens        : per root address, the creates and opens of the callers
\*                  not closed yet
\*   made         : the root addresses trees were created at and not
\*                  destroyed
\*   reopened     : the root addresses opened after their last close
\*   kvs          : per root address, the callers' account of the tree
\*   creates, tops : trees the callers may still create; opens, closes
\*                  and destroys they may still start
EmptyPool(T, ntrees, budget) ==
    [trees        |-> [s \in Slots |-> NoTd],
     trees_in_use |-> [w \in Words |-> {}],
     trees_loaded |-> 0,
     n_tree       |-> [a \in Addrs |-> NoTree],
     act          |-> [s \in Slots |-> {}],
     arbor        |-> [a \in Addrs |-> NoArbor],
     top          |-> [t \in T |-> [addr |-> NoAddr, no_tree |-> NoTree,
                                     had |-> 0]],
     opens        |-> [a \in Addrs |-> 0],
     made         |-> {},
     reopened     |-> {},
     kvs          |-> [a \in Addrs |-> [k \in Keys |-> 0]],
     creates      |-> ntrees,
     tops         |-> budget]

\* S.td while S runs on the tree of slot s
TdOf(P, s) == [root |-> P.trees[s].t_root, height |-> P.trees[s].t_height,
               t_ref |-> P.trees[s].t_ref, lock |-> P.trees[s].lock]

\* the lists and n_tree pointers after node_get(), node_put() or
\* node_free() ran for the tree of slot s on descriptors that were n0
pool_sync(n0, S, s) ==
    LET on(n, a) == n[a].exists /\ n[a].list = "active"
        off == {a \in Addrs : ~on(S.nds, a)}
        new == {a \in Addrs : on(S.nds, a) /\ ~on(n0, a)}
    IN  [S EXCEPT
           !.pool.act = [x \in Slots |->
                           IF x = s THEN (@[x] \ off) \cup new ELSE @[x] \ off],
           !.pool.n_tree = [a \in Addrs |->
                              IF ~(S.nds[a].exists /\ S.nds[a].n_tree)
                              THEN NoTree
                              ELSE IF ~(n0[a].exists /\ n0[a].n_tree)
                              THEN s ELSE @[a]]]

RECURSIVE tree_slot_loop(_, _)
\* the loop of mem_tree_get() over trees_in_use: the word and the bit taken
tree_slot_loop(in_use, i) ==
    IF i \notin Words THEN [i |-> NoTree, offset |-> 0]
    ELSE IF in_use[i] # 0..(WordBits - 1)
    THEN [i |-> i,
          offset |-> CHOOSE b \in 0..(WordBits - 1) :
                        b \notin in_use[i] /\ \A x \in 0..(b - 1) : x \in in_use[i]]
    ELSE tree_slot_loop(in_use, i + 1)

\* mem_tree_get() from "Assign a free tree descriptor" on
tree_assign(S, addr) ==
    LET f == tree_slot_loop(S.pool.trees_in_use, 0)
        tree == f.offset + f.i * SizeofWord
    IN  IF f.i = NoTree THEN Fault(S, "mem_tree_get: tree != NULL")
        ELSE IF tree \notin Slots THEN Fault(S, "mem_tree_get: beyond trees[]")
        ELSE IF S.pool.trees[tree].t_ref # 0
        THEN Fault(S, "mem_tree_get: t_ref == 0")
        ELSE
        Bind([S EXCEPT !.pool.trees_in_use[f.i] = @ \cup {f.offset},
                       !.pool.trees_loaded = @ + 1,
                       !.pool.trees[tree].lock = 0,
                       !.pool.trees[tree].t_ref = @ + 1,
                       !.pool.act[tree] = {},
                       !.pool.top[S.c.id].no_tree = tree], LAMBDA S1 :
        IF addr = NoAddr THEN [S1 EXCEPT !.c.no_node = S1.pool.trees[tree].t_root]
        ELSE Bind(node_get([S1 EXCEPT !.td = TdOf(S1.pool, tree)], addr, FALSE),
                  LAMBDA S2 :
             IF Dead(S2) THEN S2
             ELSE [pool_sync(S.nds, S2, tree) EXCEPT
                      !.pool.trees[tree].t_root = addr,
                      !.nds[addr].n_tree = TRUE,
                      !.pool.n_tree[addr] = tree]))

mem_tree_get(S0, addr) ==
    Bind(S0, LAMBDA S :
    IF Dead(S) THEN S
    ELSE IF S.pool.trees_loaded > M0_TREE_COUNT
    THEN Fault(S, "mem_tree_get: trees_loaded <= ARRAY_SIZE(trees)")
    ELSE LET tree == S.pool.n_tree[addr]
         IN  IF addr # NoAddr /\ S.pool.trees_loaded > 0
                /\ S.nds[addr].exists /\ S.nds[addr].n_tree
             THEN IF S.pool.trees[tree].lock # 0 THEN [S EXCEPT !.blocked = TRUE]
                  ELSE IF S.pool.trees[tree].t_root = addr
                  THEN [S EXCEPT !.pool.trees[tree].t_ref = @ + 1,
                                 !.c.no_node = addr,
                                 !.pool.top[S.c.id].no_tree = tree]
                  ELSE tree_assign(S, addr)
             ELSE tree_assign(S, addr))

\* the unlock of t_lock after m0_rwlock_fini() on the last reference is not
\* followed: what it does is the lock library's
mem_tree_put(S0, tree) ==
    Bind(S0, LAMBDA S :
    IF Dead(S) THEN S
    ELSE IF S.pool.trees[tree].lock # 0 THEN [S EXCEPT !.blocked = TRUE]
    ELSE IF S.pool.trees[tree].t_ref = 0 THEN Fault(S, "mem_tree_put: t_ref > 0")
    ELSE IF S.pool.trees[tree].t_root = NoAddr
    THEN Fault(S, "mem_tree_put: t_root != NULL")
    ELSE IF S.pool.trees[tree].t_ref > 1
    THEN [S EXCEPT !.pool.trees[tree].t_ref = @ - 1]
    ELSE IF S.pool.trees_loaded = 0 THEN Fault(S, "mem_tree_put: trees_loaded > 0")
    ELSE LET array_offset == tree \div SizeofWord
             bit_offset_in_array == tree % SizeofWord
         IN  IF array_offset \notin Words
             THEN Fault(S, "mem_tree_put: beyond trees_in_use[]")
             ELSE [S EXCEPT !.pool.trees[tree].t_ref = 0,
                            !.pool.trees_in_use[array_offset] =
                                @ \ {bit_offset_in_array},
                            !.pool.trees_loaded = @ - 1])

\* the caller's struct m0_btree of the operation of S
Arbor(S) == S.pool.arbor[S.pool.top[S.c.id].addr]

btree_create_tree_tick(S) ==
    LET addr == S.pool.top[S.c.id].addr
        tree == S.pool.top[S.c.id].no_tree
    IN  IF S.c.phase = "P_INIT"
        THEN Goto(mem_tree_get([S EXCEPT !.mem[addr] = ff_init,
                                         !.pool.arbor[addr] = NoArbor], addr),
                  "P_ACT")
        ELSE IF S.pool.trees[tree].lock # 0 THEN [S EXCEPT !.blocked = TRUE]
        ELSE Goto([S EXCEPT !.pool.arbor[addr].t_desc = tree,
                            !.pool.trees[tree].t_height = 1], "P_DONE")

btree_destroy_tree_tick(S) ==
    LET addr == S.pool.top[S.c.id].addr
        tree == Arbor(S).t_desc
        root == S.pool.trees[tree].t_root
    IN  IF ~node_invariant(S, root)
        THEN Fault(S, "btree_destroy_tree_tick: node_invariant")
        ELSE IF ff_count(S.mem[root]) # 0
        THEN Fault(S, "btree_destroy_tree_tick: node_count == 0")
        ELSE Goto([mem_tree_put(pool_sync(S.nds,
                                          [S EXCEPT !.nds[root].list = "none"],
                                          tree), tree)
                      EXCEPT !.pool.arbor[addr] = NoArbor], "P_DONE")

btree_open_tree_tick(S) ==
    LET addr == S.pool.top[S.c.id].addr
        tree == S.pool.top[S.c.id].no_tree
    IN  IF S.c.phase = "P_INIT" THEN Goto(mem_tree_get(S, addr), "P_ACT")
        ELSE Goto([S EXCEPT !.pool.arbor[addr] =
                               [t_desc |-> tree,
                                t_height |-> S.pool.trees[tree].t_height]],
                  "P_DONE")

\* late: more than five seconds have gone by since the close began
btree_close_tree_tick(S, late) ==
    LET td_curr == Arbor(S).t_desc
        root == S.pool.trees[td_curr].t_root
        nodes == S.pool.act[td_curr]
    IN  IF S.c.phase = "P_INIT" /\ S.pool.trees[td_curr].t_ref = 0
        THEN Fault(S, "btree_close_tree_tick: t_ref != 0")
        ELSE IF S.c.phase = "P_INIT" /\ S.pool.trees[td_curr].t_ref > 1
        THEN Goto(mem_tree_put(S, td_curr), "P_DONE")
        ELSE IF Cardinality(nodes) > 1
        THEN IF late THEN Goto([S EXCEPT !.c.sm_rc = "ETIMEDOUT"], "P_DONE")
             ELSE Goto(S, "P_TIMECHECK")
        ELSE Goto(mem_tree_put(
                 IF nodes = {root}
                 THEN pool_sync(S.nds,
                          node_put([S EXCEPT !.td = TdOf(S.pool, td_curr)],
                                   root, FALSE), td_curr)
                 ELSE S, td_curr), "P_DONE")

tree_tick(S, late) ==
    CASE S.c.op = "create" -> btree_create_tree_tick(S)
      [] S.c.op = "destroy" -> btree_destroy_tree_tick(S)
      [] S.c.op = "open" -> btree_open_tree_tick(S)
      [] S.c.op = "close" -> btree_close_tree_tick(S, late)

(* -------------------------- segment addresses -------------------------- *)
\* struct segaddr::as_core and the pointers it is built from are 64 bit
\* words; a word is kept as the set of the positions of its bits that are 1
NODE_SHIFT_MIN == 9

\* bits of an address that may be 1 at one time in the addresses tried
MaxAddrBits == 2

\* a non-negative int converted to uint64_t
u64(n) == {i \in 0..30 : (n \div (2 ^ i)) % 2 = 1}

\* a word that fits an int, as the int
RECURSIVE u64_int(_)
u64_int(w) ==
    IF w = {} THEN 0
    ELSE LET i == CHOOSE j \in w : TRUE IN (2 ^ i) + u64_int(w \ {i})

\* (1ULL << n) - 1
u64_low(n) == 0..(n - 1)

\* ~w
u64_not(w) == (0..(WordBits - 1)) \ w

node_shift_is_valid(shift) ==
    shift >= NODE_SHIFT_MIN /\ shift < NODE_SHIFT_MIN + 16

addr_is_aligned(addr) == addr \cap u64_low(NODE_SHIFT_MIN) = {}

\* (0xff000000000001f0ull & as_core) == 0
segaddr_is_valid(as_core) == ((4..8) \cup (56..63)) \cap as_core = {}

\* a word that holds the shift itself, not its distance from NODE_SHIFT_MIN
segaddr_build_plain(addr, shift) == addr \cup u64(shift)

segaddr_build(addr, shift) == addr \cup u64(shift - NODE_SHIFT_MIN)

segaddr_addr(as_core) == as_core \cap u64_not(u64_low(NODE_SHIFT_MIN))

segaddr_shift(as_core) == u64_int(as_core \cap u64(15)) + NODE_SHIFT_MIN

\* no segment address under construction
NoSeg == [step |-> "none"]

(* ----------------------------- the system ----------------------------- *)
\* threads of the concurrent unit test
NThreads == 2
\* operations the single caller starts on the loaded tree
MaxOps == 2
\* operations each thread of the concurrent test starts
MaxOpsConc == 1

\* mem, nds, td, ah : node memory, node descriptors, tree descriptor and
\*                    m0_btree::t_height
\* th               : per thread, the m0_btree_op it runs
\* fault            : "" or the assertion / invalid access that stopped the run
\* nops             : per thread, the operations it may still start
\* kv               : the caller's account of the tree, as the unit tests keep
\*                    it: the value last put under each key and not deleted
\*                    since (0: none)
\* dels             : the keys a delete was started on since their last put
\* pre              : per thread, the tree as it was when its operation began
\* eff              : the account kept in the order the operations act on the
\*                    tree: the value of the last put or delete of each key
\*                    whose callback was shown M0_BSC_SUCCESS (0: none)
\* faulter          : the thread whose tick met the fault (0: none)
\* ndt              : per thread, where it stands inside node_get(), node_put()
\*                    or node_free() when these are followed line by line
\* lk               : the holders of nd::n_lock and of lru_lock (0: free)
\* dsc              : per segment address, the struct nd objects made for it:
\*                    gen numbers the m0_alloc() calls of node_get(), live
\*                    are those not passed to m0_free() yet.  nds[a] is the
\*                    object the node header points to, the one numbered gen
\* lru              : btree_lru_nds where node_get() and node_put() are
\*                    followed line by line: the nodes whose descriptors
\*                    are on the list, head first
\* pool             : the tree descriptor pool and its callers, where trees
\*                    are created, opened, closed and destroyed
\* seg              : a segment address under construction: the address and
\*                    the shift it is built from, the word built and what is
\*                    read back from the word
VARIABLES mem, nds, td, ah, th, fault, nops, kv, dels, pre, eff, faulter,
          ndt, lk, dsc, lru, pool, seg

vars == <<mem, nds, td, ah, th, fault, nops, kv, dels, pre, eff, faulter,
          ndt, lk, dsc, lru, pool, seg>>

RECURSIVE TreeRecsFrom(_, _, _, _)
RECURSIVE TreeRecs(_, _, _)
\* the leaf records of the subtree at a, left to right; d bounds the depth
TreeRecs(m, a, d) ==
    IF d = 0 \/ a \notin Addrs THEN << >>
    ELSE IF m[a].level = 0 THEN [i \in 1..m[a].used |-> m[a].slots[i]]
    ELSE TreeRecsFrom(m, a, 1, d)

TreeRecsFrom(m, a, i, d) ==
    IF i > m[a].used THEN << >>
    ELSE TreeRecs(m, m[a].slots[i][2], d - 1) \o TreeRecsFrom(m, a, i + 1, d)

\* what the caller learns when an operation reaches P_DONE
Account(c, old) ==
    IF c.op = "put" /\ c.sm_rc = "0" /\ c.flags = "SUCCESS"
    THEN [old EXCEPT ![c.key] = c.val]
    ELSE IF c.op = "del" /\ c.sm_rc = "0" /\ c.flags = "SUCCESS"
    THEN [old EXCEPT ![c.key] = 0]
    ELSE old

\* what a tick that took the operation from c0 to c did to the tree, as
\* its callback accepted it
Effect(c0, c, old) ==
    IF c0.flags = "NONE" /\ c.flags = "SUCCESS" /\ c.cbrc = "0"
    THEN IF c.op = "put" THEN [old EXCEPT ![c.key] = c.val]
         ELSE IF c.op = "del" THEN [old EXCEPT ![c.key] = 0]
         ELSE old
    ELSE old

\* a thread outside node_get(), node_put() and node_free(); held are the
\* descriptors it was given and has not returned yet, as pairs of address
\* and number; nd is the number of the one it works on
NdIdle == [pc |-> "idle", a |-> NoAddr, nd |-> 0, in_lrulist |-> FALSE,
           held |-> {}, count |-> 0]

\* the orders in which the nodes of A can stand on a list
Orders(A) ==
    {q \in [1..Cardinality(A) -> A] : \A i, j \in DOMAIN q : q[i] = q[j] => i = j}

CreatedTree ==
    [mem   |-> [a \in Addrs |-> IF a = 1 THEN ff_init ELSE FreeMem],
     nds   |-> [a \in Addrs |->
                  IF a = 1
                  THEN [exists |-> TRUE, n_ref |-> 1, n_seq |-> TimeNow,
                        n_delayed_free |-> FALSE, list |-> "active",
                        n_tree |-> TRUE, skip |-> FALSE]
                  ELSE NoNd],
     td    |-> [root |-> 1, height |-> 1, t_ref |-> 1, lock |-> 0],
     ah    |-> 0]

\* m0_btree_put() and the like: a fresh m0_btree_op in P_INIT
NewOp(id, op, key, val, cbrc, dir) ==
    [IdleCtx(id) EXCEPT !.op = op, !.key = key, !.val = val, !.cbrc = cbrc,
                        !.dir = dir, !.phase = "P_INIT"]

op_tick(S) ==
    CASE S.c.op = "put" -> btree_put_kv_tick(S)
      [] S.c.op = "del" -> btree_del_kv_tick(S)
      [] S.c.op = "get" -> btree_get_kv_tick(S)
      [] S.c.op = "iter" -> btree_iter_kv_tick(S)

RECURSIVE run(_)
\* M0_BTREE_OP_SYNC_WITH_RC: the caller's thread ticks the operation until
\* P_DONE
run(S0) ==
    Bind(S0, LAMBDA S :
    IF S.c.phase = "P_DONE" \/ Dead(S) THEN S ELSE run(op_tick(S)))

\* the value the unit tests put under a key
ut_val(k) == ((k - 1) % MaxVal) + 1

RECURSIVE ut_load(_, _)
\* the unit tests' loading loop: the keys of ks put one after the other into
\* the tree of L.S, each run to completion; L.kv is the account kept
ut_load(L0, ks) ==
    Bind(L0, LAMBDA L :
    IF ks = << >> THEN L
    ELSE Bind(run([L.S EXCEPT !.c = NewOp(1, "put", Head(ks),
                                          ut_val(Head(ks)), "0", "eq")]),
              LAMBDA S :
         ut_load([S |-> S, kv |-> Account(S.c, L.kv)], Tail(ks))))

\* key orders of the loading loops: one stream of n ascending keys, n
\* descending keys, and the multi-stream order i + stream_num * recs
ut_asc(n) == [i \in 1..n |-> i]
ut_desc(n) == [i \in 1..n |-> MaxKey + 1 - i]
ut_streams(sc, recs) ==
    [j \in 1..(sc * recs) |-> ((j - 1) \div sc) + 1 + ((j - 1) % sc) * recs]

Loads ==
    {ut_asc(n) : n \in 0..MaxKey} \cup {ut_desc(n) : n \in 1..MaxKey}
    \cup {ut_streams(2, r) : r \in {r \in 2..MaxKey : 2 * r <= MaxKey}}

Loaded(ks) ==
    ut_load([S  |-> [mem |-> CreatedTree.mem, nds |-> CreatedTree.nds,
                     td |-> CreatedTree.td, ah |-> CreatedTree.ah,
                     c |-> IdleCtx(1), fault |-> "", blocked |-> FALSE],
             kv |-> [k \in Keys |-> 0]], ks)

State(t) == [mem |-> mem, nds |-> nds, td |-> td, ah |-> ah, c |-> th[t],
             fault |-> fault, blocked |-> FALSE]

Commit(t, S) ==
    /\ ~S.blocked
    /\ mem' = S.mem /\ nds' = S.nds /\ td' = S.td /\ ah' = S.ah
    /\ th' = [th EXCEPT ![t] = S.c]
    /\ fault' = S.fault

\* the tree a caller can see: per allocated node its level and records
View(m) ==
    [a \in Addrs |-> IF m[a].alloc
                     THEN <<m[a].level, [i \in 1..m[a].used |-> m[a].slots[i]]>>
                     ELSE << >>]

\* what pre keeps of a tree: the view, the height, the records of the
\* leaves in order
Snapshot(m, d) == [view |-> View(m), height |-> d.height,
                   recs |-> TreeRecs(m, d.root, d.height)]

\* anyorder: the descriptors on the LRU list stand there in any order, as
\* after any sequence of node_get() and node_put() on them; else in the
\* order of their addresses
InitOrd(T, budget, LS, anyorder) ==
    \E ks \in LS :
       \E L \in {Loaded(ks)} :
           /\ \E q \in Orders({a \in Addrs : L.S.nds[a].list = "lru"}) :
                 /\ anyorder \/ \A i, j \in DOMAIN q : i < j => q[i] < q[j]
                 /\ lru = q
           /\ mem = L.S.mem /\ nds = L.S.nds /\ td = L.S.td /\ ah = L.S.ah
           /\ fault = L.S.fault
           /\ kv = L.kv
           /\ th = [t \in T |-> IdleCtx(t)]
           /\ nops = [t \in T |-> budget]
           /\ dels = {}
           /\ pre = [t \in T |-> Snapshot(L.S.mem, L.S.td)]
           /\ eff = L.kv
           /\ faulter = 0
           /\ ndt = [t \in T |-> NdIdle]
           /\ lk = [n_lock |-> [a \in Addrs |-> 0], lru_lock |-> 0]
           /\ pool = EmptyPool(T, 0, 0)
           /\ seg = NoSeg
           /\ dsc = [a \in Addrs |->
                       IF L.S.nds[a].exists THEN [gen |-> 1, live |-> {1}]
                       ELSE [gen |-> 0, live |-> {}]]

InitWith(T, budget, LS) == InitOrd(T, budget, LS, FALSE)

\* one caller: the tree after one of the loading loops
Init == InitWith({1}, MaxOps, Loads)

Idle(t) == th[t].phase = "P_DONE" /\ fault = "" /\ nops[t] > 0

Start(t, c) ==
    /\ th' = [th EXCEPT ![t] = c]
    /\ nops' = [nops EXCEPT ![t] = @ - 1]
    /\ pre' = [pre EXCEPT ![t] = Snapshot(mem, td)]
    /\ dels' = IF c.op = "del" THEN dels \cup {c.key} ELSE dels
    /\ UNCHANGED <<mem, nds, td, ah, fault, kv, eff, faulter, ndt, lk, dsc, lru, pool, seg>>

Put(t) ==
    /\ Idle(t)
    /\ \E k \in Keys, v \in Vals, rc \in {"0", "CBERR"} :
          Start(t, NewOp(t, "put", k, v, rc, "eq"))

Del(t) ==
    /\ Idle(t)
    /\ \E k \in Keys, rc \in {"0", "CBERR"} :
          Start(t, NewOp(t, "del", k, 0, rc, "eq"))

Get(t) ==
    /\ Idle(t)
    /\ \E k \in Keys, d \in {"eq", "slant"} :
          Start(t, NewOp(t, "get", k, 0, "0", d))

Iter(t) ==
    /\ Idle(t)
    /\ \E k \in Keys, d \in {"next", "prev"} :
          Start(t, NewOp(t, "iter", k, 0, "0", d))

\* one tick of the state machine of the operation thread t runs
Tick(t) ==
    /\ th[t].phase # "P_DONE" /\ fault = ""
    /\ \E S \in {op_tick(State(t))} :
           /\ Commit(t, S)
           /\ kv' = IF S.c.phase = "P_DONE" THEN Account(S.c, kv) ELSE kv
           /\ dels' = IF S.c.phase = "P_DONE" /\ S.c.op = "put"
                         /\ S.c.sm_rc = "0" /\ S.c.flags = "SUCCESS"
                      THEN dels \ {S.c.key} ELSE dels
           /\ eff' = Effect(th[t], S.c, eff)
           /\ faulter' = IF S.fault # "" THEN t ELSE faulter
    /\ UNCHANGED <<nops, pre, ndt, lk, dsc, lru, pool, seg>>

Next ==
    \E t \in DOMAIN th : Put(t) \/ Del(t) \/ Get(t) \/ Iter(t) \/ Tick(t)

Spec == Init /\ [][Next]_vars

\* the trees the threads of the concurrent test start on
ConcLoads == {ut_asc(n) : n \in 0..MaxKey} \cup {ut_desc(MaxKey)}

InitConc == InitWith(1..NThreads, MaxOpsConc, ConcLoads)

\* the operations of a thread of the concurrent test: puts of the value the
\* test derives from the key, deletes, gets and iterations, no callback
\* failing
PutC(t) ==
    Idle(t) /\ \E k \in Keys : Start(t, NewOp(t, "put", k, ut_val(k), "0", "eq"))

DelC(t) ==
    Idle(t) /\ \E k \in Keys : Start(t, NewOp(t, "del", k, 0, "0", "eq"))

GetC(t) ==
    Idle(t) /\ \E k \in Keys : Start(t, NewOp(t, "get", k, 0, "0", "eq"))

IterC(t) ==
    Idle(t) /\ \E k \in Keys, d \in {"next", "prev"} :
                  Start(t, NewOp(t, "iter", k, 0, "0", d))

NextConc ==
    \E t \in DOMAIN th :
       PutC(t) \/ DelC(t) \/ GetC(t) \/ IterC(t) \/ Tick(t)

SpecConc == InitConc /\ [][NextConc]_vars

(* ------------------------- restarts of an operation ------------------- *)
\* the largest sequence number a descriptor is given from outside
MaxSeq == 8

\* one caller with one operation, on an empty tree or one with two leaves
TrialLoads == {ut_asc(0), ut_asc(Cap + 1)}

InitTrial == InitWith({1}, 1, TrialLoads)

\* what makes path_check() fail: n_seq of a descriptor the operation holds
\* is not what the descent read.  While the operation does not hold the
\* tree lock this is what the put or delete of another caller does
\* (node_seq_cnt_update); while it holds the lock (BOF_LOCKALL) no
\* operation of the tree does, and the step stands for the descriptor
\* being written behind the tree's back, the case the branch of P_CHECK
\* under BOF_LOCKALL is there for
Disturb ==
    /\ fault = ""
    /\ \E t \in DOMAIN th : th[t].phase \notin {"P_DONE", "P_INIT"}
    /\ \E a \in Addrs :
          /\ nds[a].exists /\ nds[a].n_ref > 0 /\ nds[a].n_seq < MaxSeq
          /\ nds' = [nds EXCEPT ![a].n_seq = @ + 1]
    /\ UNCHANGED <<mem, td, ah, th, fault, nops, kv, dels, pre, eff, faulter,
                   ndt, lk, dsc, lru, pool, seg>>

NextTrial ==
    \/ \E t \in DOMAIN th : PutC(t) \/ DelC(t) \/ GetC(t) \/ Tick(t)
    \/ Disturb

SpecTrial == InitTrial /\ [][NextTrial]_vars

(* ---------------- node descriptors, line by line ---------------------- *)
\* node_get(), node_put() and node_free() run by several threads on the
\* descriptors of one tree, each a sequence of steps: a step is what a
\* thread does between two points where it takes or drops a lock or reads
\* a field it holds no lock for

\* calls of node_get(), node_alloc(), node_put() and node_free() a thread
\* makes
MaxNdOps == 3

\* the trees whose descriptors the threads work on
NdLoads == {ut_asc(0), ut_asc(Cap + 1)}

InitNd == InitWith(1..NThreads, MaxNdOps, NdLoads)

\* a step of thread t: node memory m, descriptors n, the thread's position
\* d, locks l, the objects made ds, the LRU list q; what is "" or the
\* assertion or invalid access the step met
NdCommitL(t, m, n, d, l, ds, q, what) ==
    /\ mem' = m /\ nds' = n /\ lk' = l /\ dsc' = ds /\ lru' = q
    /\ ndt' = [ndt EXCEPT ![t] = d]
    /\ fault' = what
    /\ faulter' = IF what # "" THEN t ELSE faulter
    /\ UNCHANGED <<td, ah, th, kv, dels, pre, eff, pool, seg>>

NdCommitD(t, m, n, d, l, ds, what) == NdCommitL(t, m, n, d, l, ds, lru, what)

NdCommit(t, m, n, d, l, what) == NdCommitD(t, m, n, d, l, dsc, what)

\* ndlist_tlist_del() as far as the LRU list goes
LruDel(a) == SelectSeq(lru, LAMBDA x : x # a)

NdFault(t, what) ==
    NdCommit(t, mem, nds, ndt[t], lk, what) /\ UNCHANGED nops

NdAt(t, pc) == ndt[t].pc = pc /\ fault = ""

\* the nodes thread t holds a descriptor of
NdHeld(t) == {p[1] : p \in ndt[t].held}

\* the descriptor thread t works on was passed to m0_free()
NdGone(t) == ndt[t].nd \notin dsc[ndt[t].a].live

\* thread t leaves the function it was in, with (got) or without (lost)
\* the descriptor it worked on
NdReturn(t, got, lost) ==
    LET me == {<<ndt[t].a, ndt[t].nd>>}
    IN  [NdIdle EXCEPT !.held = IF got THEN ndt[t].held \cup me
                                ELSE IF lost THEN ndt[t].held \ me
                                ELSE ndt[t].held]

NdCall(t, pc, a, nd) ==
    /\ nops' = [nops EXCEPT ![t] = @ - 1]
    /\ ndt' = [ndt EXCEPT ![t].pc = pc, ![t].a = a, ![t].nd = nd]
    /\ UNCHANGED <<nds, td, ah, th, fault, kv, dels, pre, eff, faulter, lk,
                   dsc, lru, pool, seg>>

\* node_get() of a node of the segment; the address is one a thread read in
\* a parent without the tree lock, so the node need not be in the tree still
NdGetCall(t) ==
    /\ NdAt(t, "idle") /\ nops[t] > 0
    /\ \E a \in Addrs :
          /\ mem[a].alloc /\ a \notin NdHeld(t)
          /\ NdCall(t, "get_look", a, 0) /\ UNCHANGED mem

\* node_alloc(): so_node_alloc(), node_init(), which zeroes the header and
\* with it the pointer to the descriptor, then node_get()
NdAllocCall(t) ==
    /\ NdAt(t, "idle") /\ nops[t] > 0
    /\ \E a \in Addrs : ~mem[a].alloc
    /\ \E a \in {mem_node_alloc([mem |-> mem])} :
          /\ mem' = [mem EXCEPT ![a] = ff_init]
          /\ NdCall(t, "get_look", a, 0)

NdPutCall(t) ==
    /\ NdAt(t, "idle") /\ nops[t] > 0
    /\ \E p \in ndt[t].held :
          NdCall(t, "put_lock", p[1], p[2]) /\ UNCHANGED mem

\* node_free() of a node the thread holds; the root is freed with its tree
\* only, and a node is freed once
NdFreeCall(t) ==
    /\ NdAt(t, "idle") /\ nops[t] > 0
    /\ \E p \in ndt[t].held :
          /\ p[1] # td.root /\ p[2] \in dsc[p[1]].live
          /\ ~nds[p[1]].n_delayed_free
          /\ NdCall(t, "free_lock", p[1], p[2]) /\ UNCHANGED mem

NdStep(t, n, d, l) == NdCommit(t, mem, n, d, l, "") /\ UNCHANGED nops

\* node_get(): nt_opaque_get(addr) and the comparison of n_addr
NdGetLook(t) ==
    /\ NdAt(t, "get_look")
    /\ LET a == ndt[t].a
       IN  IF ~mem[a].alloc THEN NdFault(t, "node_get: freed node memory")
           ELSE IF nds[a].exists
           THEN NdStep(t, nds, [ndt[t] EXCEPT !.pc = "get_lock",
                                              !.nd = dsc[a].gen], lk)
           ELSE NdStep(t, nds, [ndt[t] EXCEPT !.pc = "get_lru"], lk)

\* node_get(): the descriptor was found; under n_lock, the n_delayed_free
\* test and the reference
NdGetLock(t) ==
    /\ NdAt(t, "get_lock")
    /\ LET a == ndt[t].a
       IN  IF NdGone(t) THEN NdFault(t, "node_get: freed descriptor")
           ELSE /\ lk.n_lock[a] = 0
                /\ IF nds[a].n_delayed_free
                   THEN NdStep(t, nds, NdReturn(t, FALSE, FALSE), lk)
                   ELSE IF nds[a].n_ref = 0
                   THEN NdStep(t, [nds EXCEPT ![a].n_ref = 1],
                               [ndt[t] EXCEPT !.pc = "get_lru_del",
                                              !.in_lrulist = TRUE],
                               [lk EXCEPT !.n_lock[a] = t])
                   ELSE NdStep(t, [nds EXCEPT ![a].n_ref = @ + 1],
                               NdReturn(t, TRUE, FALSE), lk)

\* node_get(): ndlist_tlist_del() under lru_lock
NdGetLruDel(t) ==
    /\ NdAt(t, "get_lru_del")
    /\ LET a == ndt[t].a
       IN  /\ lk.lru_lock = 0
           /\ IF nds[a].list = "none"
              THEN NdFault(t, "ndlist_tlist_del: not in a list")
              ELSE NdCommitL(t, mem, [nds EXCEPT ![a].list = "none"],
                             [ndt[t] EXCEPT !.pc = "get_act_add"], lk, dsc,
                             LruDel(a), "")
                   /\ UNCHANGED nops

\* node_get(): ndlist_tlist_add(&tree->t_active_nds) under the tree lock,
\* which the thread of a lock-all descent holds already (lock_acquired)
NdGetActAdd(t) ==
    /\ NdAt(t, "get_act_add")
    /\ LET a == ndt[t].a
       IN  /\ td.lock \in {0, t}
           /\ IF nds[a].list # "none"
              THEN NdFault(t, "ndlist_tlist_add: in a list")
              ELSE NdStep(t, [nds EXCEPT ![a].list = "active"],
                          [ndt[t] EXCEPT !.pc = "get_set_tree"], lk)

\* node_get(): n_tree = tree and the unlock of n_lock
NdGetSetTree(t) ==
    /\ NdAt(t, "get_set_tree")
    /\ LET a == ndt[t].a
       IN  NdStep(t, [nds EXCEPT ![a].n_tree = TRUE],
                  NdReturn(t, TRUE, FALSE), [lk EXCEPT !.n_lock[a] = 0])

\* node_get(): m0_alloc() of a descriptor, its fields, nt_opaque_set() and
\* the unlock of lru_lock
NdMake(t, a) ==
    NdCommitD(t, mem,
              [nds EXCEPT ![a] =
                  [exists |-> TRUE, n_ref |-> 1, n_seq |-> TimeNow,
                   n_delayed_free |-> FALSE, list |-> "none",
                   n_tree |-> TRUE, skip |-> FALSE]],
              [ndt[t] EXCEPT !.pc = "get_link", !.nd = dsc[a].gen + 1],
              lk,
              [dsc EXCEPT ![a] = [gen |-> @.gen + 1,
                                  live |-> @.live \cup {@.gen + 1}]], "")
    /\ UNCHANGED nops

\* node_get() without the second look-up
NdGetLru_nolook(t) ==
    /\ NdAt(t, "get_lru")
    /\ LET a == ndt[t].a
       IN  /\ lk.lru_lock = 0
           /\ IF ~mem[a].alloc THEN NdFault(t, "node_get: freed node memory")
              ELSE NdMake(t, a)

\* node_get(): no descriptor was found; lru_lock is taken and the look-up
\* repeated.  With none found again the descriptor is made and the lock
\* dropped, else the lock is kept
NdGetLru(t) ==
    /\ NdAt(t, "get_lru")
    /\ LET a == ndt[t].a
       IN  /\ lk.lru_lock = 0
           /\ IF ~mem[a].alloc THEN NdFault(t, "node_get: freed node memory")
              ELSE IF nds[a].exists
              THEN NdStep(t, nds, [ndt[t] EXCEPT !.pc = "get_ref2",
                                                 !.nd = dsc[a].gen],
                          [lk EXCEPT !.lru_lock = t])
              ELSE NdMake(t, a)

\* node_get(): the second look-up found a descriptor; the reference under
\* n_lock, then both locks dropped
NdGetRef2(t) ==
    /\ NdAt(t, "get_ref2")
    /\ LET a == ndt[t].a
       IN  IF NdGone(t) THEN NdFault(t, "node_get: freed descriptor")
           ELSE /\ lk.n_lock[a] = 0
                /\ NdStep(t, [nds EXCEPT ![a].n_ref = @ + 1],
                          NdReturn(t, TRUE, FALSE),
                          [lk EXCEPT !.lru_lock = 0])

\* node_get(): ndlist_tlink_init_at() of the new descriptor under the tree
\* lock
NdGetLink(t) ==
    /\ NdAt(t, "get_link")
    /\ LET a == ndt[t].a
       IN  /\ td.lock \in {0, t}
           /\ IF NdGone(t) THEN NdFault(t, "node_get: freed descriptor")
              ELSE NdStep(t, [nds EXCEPT ![a].list = "active"],
                          NdReturn(t, TRUE, FALSE), lk)

\* mem_node_put(): under n_lock, the reference is dropped
NdPutLock(t) ==
    /\ NdAt(t, "put_lock")
    /\ LET a == ndt[t].a
       IN  IF NdGone(t) THEN NdFault(t, "node_put: freed descriptor")
           ELSE /\ lk.n_lock[a] = 0
                /\ IF nds[a].n_ref = 0
                   THEN NdFault(t, "node_refcnt_update: n_ref == 0")
                   ELSE IF nds[a].n_ref = 1
                   THEN NdStep(t, [nds EXCEPT ![a].n_ref = 0],
                               [ndt[t] EXCEPT !.pc = "put_act_del"],
                               [lk EXCEPT !.n_lock[a] = t])
                   ELSE NdStep(t, [nds EXCEPT ![a].n_ref = @ - 1],
                               [ndt[t] EXCEPT !.pc = "put_chk"], lk)

\* mem_node_put(): tree_lock(node->n_tree), ndlist_tlist_del(), n_seq = 0
NdPutActDel(t) ==
    /\ NdAt(t, "put_act_del")
    /\ LET a == ndt[t].a
       IN  IF NdGone(t) THEN NdFault(t, "node_put: freed descriptor")
           ELSE IF ~nds[a].n_tree
           THEN NdFault(t, "mem_node_put: n_tree == NULL")
           ELSE /\ td.lock = 0
                /\ IF nds[a].list = "none"
                   THEN NdFault(t, "ndlist_tlist_del: not in a list")
                   ELSE NdCommitL(t, mem, [nds EXCEPT ![a].list = "none",
                                                      ![a].n_seq = 0],
                                  [ndt[t] EXCEPT !.pc = "put_lru_add"], lk,
                                  dsc, LruDel(a), "")
                        /\ UNCHANGED nops

\* mem_node_put(): ndlist_tlist_add(&btree_lru_nds) under lru_lock
NdPutLruAdd(t) ==
    /\ NdAt(t, "put_lru_add")
    /\ LET a == ndt[t].a
       IN  IF NdGone(t) THEN NdFault(t, "node_put: freed descriptor")
           ELSE /\ lk.lru_lock = 0
                /\ IF nds[a].list # "none"
                   THEN NdFault(t, "ndlist_tlist_add: in a list")
                   ELSE NdCommitL(t, mem, [nds EXCEPT ![a].list = "lru"],
                                  [ndt[t] EXCEPT !.pc = "put_clr"], lk, dsc,
                                  <<a>> \o lru, "")
                        /\ UNCHANGED nops

\* mem_node_put(): n_tree = NULL and the unlock of n_lock
NdPutClr(t) ==
    /\ NdAt(t, "put_clr")
    /\ LET a == ndt[t].a
       IN  IF NdGone(t) THEN NdFault(t, "node_put: freed descriptor")
           ELSE NdStep(t, [nds EXCEPT ![a].n_tree = FALSE],
                       [ndt[t] EXCEPT !.pc = "put_chk"],
                       [lk EXCEPT !.n_lock[a] = 0])

\* ndlist_tlink_del_fini(), m0_free() of the descriptor and so_node_free()
\* of the node
NdRelease(t, a) ==
    NdCommitL(t, [mem EXCEPT ![a] = FreeMem], [nds EXCEPT ![a] = NoNd],
              NdReturn(t, FALSE, TRUE), [lk EXCEPT !.n_lock[a] = 0],
              [dsc EXCEPT ![a].live = @ \ {ndt[t].nd}], LruDel(a), "")
    /\ UNCHANGED nops

\* node_put(): back from so_node_put(), n_delayed_free and n_ref are read
\* with no lock held
NdPutChk(t) ==
    /\ NdAt(t, "put_chk")
    /\ LET a == ndt[t].a
       IN  IF NdGone(t) THEN NdFault(t, "node_put: freed descriptor")
           ELSE IF nds[a].n_delayed_free /\ nds[a].n_ref = 0
           THEN NdRelease(t, a)
           ELSE NdStep(t, nds, NdReturn(t, FALSE, TRUE), lk)

\* node_free(): under n_lock, the reference is dropped and n_delayed_free
\* set
NdFreeLock(t) ==
    /\ NdAt(t, "free_lock")
    /\ LET a == ndt[t].a
       IN  IF NdGone(t) THEN NdFault(t, "node_free: freed descriptor")
           ELSE /\ lk.n_lock[a] = 0
                /\ IF nds[a].n_ref = 0
                   THEN NdFault(t, "node_refcnt_update: n_ref == 0")
                   ELSE NdStep(t, [nds EXCEPT ![a].n_ref = @ - 1,
                                              ![a].n_delayed_free = TRUE],
                               [ndt[t] EXCEPT !.pc = "free_fini"], lk)

\* node_free(): nt_fini() invalidates the node
NdFreeFini(t) ==
    /\ NdAt(t, "free_fini")
    /\ LET a == ndt[t].a
       IN  IF NdGone(t) \/ ~mem[a].alloc
           THEN NdFault(t, "node_free: freed descriptor")
           ELSE NdCommit(t, [mem EXCEPT ![a] = ff_fini(@)], nds,
                         [ndt[t] EXCEPT !.pc = "free_chk"], lk, "")
                /\ UNCHANGED nops

\* node_free(): n_ref is read with no lock held
NdFreeChk(t) ==
    /\ NdAt(t, "free_chk")
    /\ LET a == ndt[t].a
       IN  IF NdGone(t) THEN NdFault(t, "node_free: freed descriptor")
           ELSE IF nds[a].n_ref = 0 THEN NdRelease(t, a)
           ELSE NdStep(t, nds, NdReturn(t, FALSE, TRUE), lk)

NextNd ==
    \E t \in DOMAIN ndt :
       \/ NdGetCall(t) \/ NdAllocCall(t) \/ NdPutCall(t) \/ NdFreeCall(t)
       \/ NdGetLook(t) \/ NdGetLock(t) \/ NdGetLruDel(t) \/ NdGetActAdd(t)
       \/ NdGetSetTree(t) \/ NdGetLru(t) \/ NdGetRef2(t) \/ NdGetLink(t)
       \/ NdPutLock(t) \/ NdPutActDel(t) \/ NdPutLruAdd(t) \/ NdPutClr(t)
       \/ NdPutChk(t)
       \/ NdFreeLock(t) \/ NdFreeFini(t) \/ NdFreeChk(t)

SpecNd == InitNd /\ [][NextNd]_vars

(* ------------- node descriptors under a lock-all descent -------------- *)
\* calls of node_get(), node_alloc() and node_put() a thread makes
MaxAllOps == 2

InitNdAll == InitWith(1..NThreads, MaxAllOps, {ut_asc(Cap + 1)})

\* P_LOCKALL of an operation with BOF_LOCKALL: lock_op_init() before the
\* descent
NdLockAll(t) ==
    /\ NdAt(t, "idle") /\ nops[t] > 0
    /\ td.lock = 0
    /\ td' = [td EXCEPT !.lock = t]
    /\ UNCHANGED <<mem, nds, ah, th, fault, nops, kv, dels, pre, eff, faulter,
                   ndt, lk, dsc, lru, pool, seg>>

\* lock_op_unlock() once the operation has acted
NdUnlockAll(t) ==
    /\ NdAt(t, "idle")
    /\ td.lock = t
    /\ td' = [td EXCEPT !.lock = 0]
    /\ UNCHANGED <<mem, nds, ah, th, fault, nops, kv, dels, pre, eff, faulter,
                   ndt, lk, dsc, lru, pool, seg>>

\* level_cleanup() runs once the tree lock was dropped: its node_put()
\* calls pass lock_acquired = false
NdPutCallU(t) == td.lock # t /\ NdPutCall(t)

NextNdAll ==
    \E t \in DOMAIN ndt :
       \/ NdLockAll(t) \/ NdUnlockAll(t)
       \/ NdGetCall(t) \/ NdAllocCall(t) \/ NdPutCallU(t)
       \/ NdGetLook(t) \/ NdGetLock(t) \/ NdGetLruDel(t) \/ NdGetActAdd(t)
       \/ NdGetSetTree(t) \/ NdGetLru(t) \/ NdGetRef2(t) \/ NdGetLink(t)
       \/ NdPutLock(t) \/ NdPutActDel(t) \/ NdPutLruAdd(t) \/ NdPutClr(t)
       \/ NdPutChk(t)

SpecNdAll == InitNdAll /\ [][NextNdAll]_vars


(* --------------------------- the LRU list ----------------------------- *)
\* calls of node_get(), node_put(), node_free() and
\* m0_btree_lrulist_purge() a thread makes
MaxLruOps == 2

\* the largest count m0_btree_lrulist_purge() is called with
MaxPurge == 3

InitLru == InitOrd(1..NThreads, MaxLruOps, NdLoads, TRUE)

RECURSIVE lrulist_purge_loop(_, _)
\* the loop of m0_btree_lrulist_purge() from the tail of list q: the nodes
\* whose descriptors it frees.  n_txref is 0 in every descriptor: m0_alloc()
\* zeroes it and nothing that is compiled writes it
lrulist_purge_loop(q, count) ==
    IF q = << >> \/ count = 0 THEN {}
    ELSE {q[Len(q)]} \cup lrulist_purge_loop(SubSeq(q, 1, Len(q) - 1), count - 1)

NdPurgeCall(t) ==
    /\ NdAt(t, "idle") /\ nops[t] > 0
    /\ \E count \in 1..MaxPurge :
          /\ nops' = [nops EXCEPT ![t] = @ - 1]
          /\ ndt' = [ndt EXCEPT ![t].pc = "purge", ![t].count = count]
    /\ UNCHANGED <<mem, nds, td, ah, th, fault, kv, dels, pre, eff, faulter,
                   lk, dsc, lru, pool, seg>>

\* m0_btree_lrulist_purge(), all of it under lru_lock: the descriptors are
\* taken off the list and freed, the node headers keep pointing to them
NdPurge(t) ==
    /\ NdAt(t, "purge")
    /\ lk.lru_lock = 0
    /\ \E F \in {lrulist_purge_loop(lru, ndt[t].count)} :
          NdCommitL(t, mem,
                    [a \in Addrs |-> IF a \in F
                                     THEN [nds[a] EXCEPT !.list = "none"]
                                     ELSE nds[a]],
                    [ndt[t] EXCEPT !.pc = "idle", !.count = 0], lk,
                    [a \in Addrs |-> IF a \in F
                                     THEN [dsc[a] EXCEPT !.live = @ \ {dsc[a].gen}]
                                     ELSE dsc[a]],
                    SelectSeq(lru, LAMBDA x : x \notin F), "")
    /\ UNCHANGED nops

NextLru ==
    \/ NextNd
    \/ \E t \in DOMAIN ndt : NdPurgeCall(t) \/ NdPurge(t)

SpecLru == InitLru /\ [][NextLru]_vars

(* ---------------- trees created, opened, closed, destroyed ------------ *)
\* trees the single caller creates when it starts no key operation, and
\* the opens, closes and destroys it starts
MaxTrees == 9
MaxTreeOps == 2
\* trees, opens, closes and destroys, and key operations of the caller
\* that mixes them
MaxMixTrees == 2
MaxMixTreeOps == 2
MaxMixOps == 2
\* opens, closes and destroys the threads start between them on their tree
MaxConcTreeOps == 2
\* the keys the callers of several trees use are 1..MaxPoolKey
MaxPoolKey == 2

PoolKeys == 1..MaxPoolKey
TreeOps == {"create", "open", "close", "destroy"}

\* the callers: one that only creates, opens, closes and destroys trees,
\* one that also works on their keys, and threads doing both
PoolCfgs ==
    {[T |-> {1}, ops |-> 0, trees |-> MaxTrees, tops |-> MaxTreeOps],
     [T |-> {1}, ops |-> MaxMixOps, trees |-> MaxMixTrees,
      tops |-> MaxMixTreeOps],
     [T |-> 1..NThreads, ops |-> MaxOpsConc, trees |-> 1,
      tops |-> MaxConcTreeOps]}

\* after m0_btree_mod_init(): no tree, nothing in the segment
InitPool ==
    \E cfg \in PoolCfgs :
       /\ mem = [a \in Addrs |-> FreeMem]
       /\ nds = [a \in Addrs |-> NoNd]
       /\ td = TdOf(EmptyPool(cfg.T, 0, 0), 0)
       /\ ah = 0
       /\ fault = ""
       /\ kv = [k \in Keys |-> 0]
       /\ th = [t \in cfg.T |-> IdleCtx(t)]
       /\ nops = [t \in cfg.T |-> cfg.ops]
       /\ dels = {}
       /\ pre = [t \in cfg.T |-> Snapshot(mem, td)]
       /\ eff = kv
       /\ faulter = 0
       /\ ndt = [t \in cfg.T |-> NdIdle]
       /\ lk = [n_lock |-> [a \in Addrs |-> 0], lru_lock |-> 0]
       /\ dsc = [a \in Addrs |-> [gen |-> 0, live |-> {}]]
       /\ lru = << >>
       /\ pool = EmptyPool(cfg.T, cfg.trees, cfg.tops)
       /\ seg = NoSeg

PoolIdle(t) == th[t].phase = "P_DONE" /\ fault = ""

\* the root addresses the operations under way were given by threads other
\* than t
PoolBusy(t) ==
    {pool.top[u].addr : u \in {u \in DOMAIN th : u # t /\ th[u].phase # "P_DONE"}}

\* m0_btree_create() and the like: a fresh m0_btree_op in P_INIT; d is what
\* the call does to the references the callers hold on the tree at a
TreeCall(t, op, a, d) ==
    /\ PoolIdle(t)
    /\ IF op = "create" THEN pool.creates > 0 ELSE pool.tops > 0
    /\ th' = [th EXCEPT ![t] = [IdleCtx(t) EXCEPT !.op = op, !.phase = "P_INIT"]]
    /\ pool' = [pool EXCEPT !.top[t] = [addr |-> a, no_tree |-> NoTree,
                                        had |-> 0],
                            !.creates = IF op = "create" THEN @ - 1 ELSE @,
                            !.tops = IF op = "create" THEN @ ELSE @ - 1,
                            !.opens[a] = @ + d,
                            !.made = IF op = "destroy" THEN @ \ {a} ELSE @,
                            !.reopened = IF op = "destroy" THEN @ \ {a} ELSE @]
    /\ UNCHANGED <<mem, nds, td, ah, fault, nops, kv, dels, pre, eff, faulter,
                   ndt, lk, dsc, lru, seg>>

\* the caller hands in memory of its own: the lowest address not in use
Create(t) ==
    \E a \in Addrs :
       /\ ~mem[a].alloc /\ a \notin PoolBusy(t)
       /\ \A b \in 1..(a - 1) : mem[b].alloc \/ b \in PoolBusy(t)
       /\ TreeCall(t, "create", a, 0)

Open(t) == \E a \in pool.made : TreeCall(t, "open", a, 0)

\* a caller closes a reference it holds and no operation is using
Close(t) ==
    \E a \in pool.made :
       /\ pool.opens[a] > 1 \/ (pool.opens[a] = 1 /\ a \notin PoolBusy(t))
       /\ TreeCall(t, "close", a, -1)

\* the preconditions of btree_destroy_tree_tick() are the caller's to meet
Destroy(t) ==
    \E a \in pool.made :
       /\ pool.opens[a] = 1 /\ a \notin PoolBusy(t)
       /\ ff_count(mem[a]) = 0
       /\ TreeCall(t, "destroy", a, -1)

TreeState(t) == [mem |-> mem, nds |-> nds, td |-> td, ah |-> ah, c |-> th[t],
                 fault |-> fault, blocked |-> FALSE, pool |-> pool]

\* one tick of the tree operation thread t runs
TreeTick(t) ==
    /\ th[t].phase # "P_DONE" /\ fault = "" /\ th[t].op \in TreeOps
    /\ \E late \in BOOLEAN :
       \E S \in {tree_tick(TreeState(t), late)} :
           /\ ~S.blocked
           /\ mem' = S.mem /\ nds' = S.nds /\ fault' = S.fault
           /\ th' = [th EXCEPT ![t] = S.c]
           /\ faulter' = IF S.fault # "" THEN t ELSE faulter
           /\ pool' =
                LET a == pool.top[t].addr
                    done == S.c.phase = "P_DONE" /\ S.fault = ""
                IN  IF ~done THEN S.pool
                    ELSE IF S.c.op = "create"
                    THEN [S.pool EXCEPT !.opens[a] = 1, !.made = @ \cup {a}]
                    ELSE IF S.c.op = "open"
                    THEN [S.pool EXCEPT
                            !.opens[a] = @ + 1,
                            !.reopened = IF pool.opens[a] = 0
                                         THEN @ \cup {a} ELSE @]
                    ELSE IF S.c.op = "close" /\ S.c.sm_rc # "0"
                    THEN [S.pool EXCEPT !.opens[a] = @ + 1]
                    ELSE S.pool
    /\ UNCHANGED <<td, ah, nops, kv, dels, pre, eff, ndt, lk, dsc, lru, seg>>

\* m0_btree_put() and the like on a tree the caller has open
KvCall(t, c) ==
    /\ PoolIdle(t) /\ nops[t] > 0
    /\ \E a \in pool.made :
          /\ pool.opens[a] > 0
          /\ pool' = [pool EXCEPT !.top[t] = [addr |-> a, no_tree |-> NoTree,
                                              had |-> pool.kvs[a][c.key]]]
    /\ th' = [th EXCEPT ![t] = c]
    /\ nops' = [nops EXCEPT ![t] = @ - 1]
    /\ UNCHANGED <<mem, nds, td, ah, fault, kv, dels, pre, eff, faulter,
                   ndt, lk, dsc, lru, seg>>

PutP(t) == \E k \in PoolKeys : KvCall(t, NewOp(t, "put", k, ut_val(k), "0", "eq"))

DelP(t) == \E k \in PoolKeys : KvCall(t, NewOp(t, "del", k, 0, "0", "eq"))

GetP(t) == \E k \in PoolKeys : KvCall(t, NewOp(t, "get", k, 0, "0", "eq"))

IterP(t) ==
    \E k \in PoolKeys, d \in {"next", "prev"} :
       KvCall(t, NewOp(t, "iter", k, 0, "0", d))

\* the state a tick of the operation of thread t on its tree starts from
KvState(t) ==
    LET arbor == pool.arbor[pool.top[t].addr]
    IN  [mem |-> mem, nds |-> nds, td |-> TdOf(pool, arbor.t_desc),
         ah |-> arbor.t_height, c |-> th[t], fault |-> fault,
         blocked |-> FALSE, pool |-> pool]

\* one tick of the put, del, get or iter thread t runs
KvTick(t) ==
    /\ th[t].phase # "P_DONE" /\ fault = "" /\ th[t].op \notin TreeOps
    /\ \E S \in {op_tick(KvState(t))} :
       \E R \in {pool_sync(nds, S, pool.arbor[pool.top[t].addr].t_desc)} :
           /\ ~S.blocked
           /\ mem' = R.mem /\ nds' = R.nds /\ fault' = R.fault
           /\ th' = [th EXCEPT ![t] = R.c]
           /\ faulter' = IF R.fault # "" THEN t ELSE faulter
           /\ pool' =
                LET a == pool.top[t].addr
                    tree == pool.arbor[a].t_desc
                IN  [R.pool EXCEPT
                       !.trees[tree].t_height = R.td.height,
                       !.trees[tree].lock = R.td.lock,
                       !.arbor[a].t_height = R.ah,
                       !.kvs[a] = IF R.c.phase = "P_DONE"
                                  THEN Account(R.c, @) ELSE @]
    /\ UNCHANGED <<td, ah, nops, kv, dels, pre, eff, ndt, lk, dsc, lru, seg>>

NextPool ==
    \E t \in DOMAIN th :
       \/ Create(t) \/ Open(t) \/ Close(t) \/ Destroy(t) \/ TreeTick(t)
       \/ PutP(t) \/ DelP(t) \/ GetP(t) \/ IterP(t) \/ KvTick(t)

SpecPool == InitPool /\ [][NextPool]_vars

(* ------------------------- put, then delete ---------------------------- *)
\* Callers that put every key of their range and then delete them, as
\* btree_ut_kv_oper_thread_handler() does with the keys of its thread

\* keys of the range of each thread when several run
ChurnPer == 2

\* the single caller works on every key
ChurnRange(t) ==
    IF DOMAIN th = {1} THEN Keys
    ELSE {k \in Keys : (k - 1) \div ChurnPer = t - 1}

\* the loading loops that put every key
ChurnLoads == {ks \in Loads : Len(ks) = MaxKey}

\* one caller on a tree its put loop has filled, or NThreads of them on
\* an empty tree
InitChurn ==
    \/ InitWith({1}, MaxKey, ChurnLoads)
    \/ InitWith(1..NThreads, 2 * ChurnPer, {ut_asc(0)})

\* the keys of K a loop may take next: any of them for the single caller,
\* the smallest for a thread among several
ChurnPick(K) ==
    IF DOMAIN th = {1} THEN K ELSE {k \in K : \A j \in K : k <= j}

\* the put loop: a key of the range not in the tree yet
PutK(t) ==
    /\ Idle(t) /\ dels \cap ChurnRange(t) = {}
    /\ \E k \in ChurnPick({j \in ChurnRange(t) : kv[j] = 0}) :
          Start(t, NewOp(t, "put", k, ut_val(k), "0", "eq"))

\* the delete loop, begun once the whole range was put
DelK(t) ==
    /\ Idle(t) /\ \A j \in ChurnRange(t) : kv[j] # 0 \/ j \in dels
    /\ \E k \in ChurnPick({j \in ChurnRange(t) : kv[j] # 0}) :
          Start(t, NewOp(t, "del", k, 0, "0", "eq"))

NextChurn == \E t \in DOMAIN th : PutK(t) \/ DelK(t) \/ Tick(t)

SpecChurn == InitChurn /\ [][NextChurn]_vars

(* --------------------------- BOF_LOCKALL ------------------------------ *)
\* Threads whose operations are started with or without BOF_LOCKALL

\* a root that the next put splits, and a tree with two leaves
LockLoads == {ut_asc(Cap), ut_asc(Cap + 1)}

InitLock == InitWith(1..NThreads, MaxOpsConc, LockLoads)

\* m0_btree_put() and the like with the flags the caller chose
FlagOp(t, op, k, v, d) ==
    \E la \in BOOLEAN :
       Start(t, [NewOp(t, op, k, v, "0", d) EXCEPT !.lockall = la])

PutL(t) == Idle(t) /\ \E k \in Keys : FlagOp(t, "put", k, ut_val(k), "eq")

DelL(t) == Idle(t) /\ \E k \in Keys : FlagOp(t, "del", k, 0, "eq")

GetL(t) == Idle(t) /\ \E k \in Keys : FlagOp(t, "get", k, 0, "eq")

IterL(t) ==
    Idle(t) /\ \E k \in Keys, d \in {"next", "prev"} : FlagOp(t, "iter", k, 0, d)

NextLock ==
    \E t \in DOMAIN th :
       PutL(t) \/ DelL(t) \/ GetL(t) \/ IterL(t) \/ Tick(t)

SpecLock == InitLock /\ [][NextLock]_vars

(* ------------------------ walk next to changes ------------------------- *)
\* One thread iterates while the others delete a key and then put one, as
\* the threads of btree_ut_kv_oper_thread_handler() do at the same time

\* operations of a thread that changes the tree
MaxWalkOps == 2

\* the tree of height 3 that the descending loading loop leaves
WalkLoads == {ut_desc(MaxKey)}

InitWalk == InitWith(1..NThreads, MaxWalkOps, WalkLoads)

\* thread 1 iterates once
IterW(t) == t = 1 /\ nops[t] = MaxWalkOps /\ IterC(t)

\* the other threads delete first
DelW(t) == t # 1 /\ nops[t] = MaxWalkOps /\ DelC(t)

\* and put afterwards
PutW(t) == t # 1 /\ nops[t] < MaxWalkOps /\ PutC(t)

NextWalk == \E t \in DOMAIN th : IterW(t) \/ DelW(t) \/ PutW(t) \/ Tick(t)

SpecWalk == InitWalk /\ [][NextWalk]_vars

(* ------------------- building a segment address ------------------- *)
\* the aligned addresses tried: up to MaxAddrBits bits above the alignment
RECURSIVE SegAddrsOf(_)
SegAddrsOf(n) ==
    IF n = 0 THEN {{}}
    ELSE LET W == SegAddrsOf(n - 1)
         IN  W \cup {w \cup {i} : w \in W,
                                  i \in NODE_SHIFT_MIN..(WordBits - 1)}

SegAddrs == SegAddrsOf(MaxAddrBits)

\* the callers of segaddr_build() pass an aligned address and a shift that
\* node_shift_is_valid() accepts
InitSeg ==
    /\ mem = [a \in Addrs |-> FreeMem]
    /\ nds = [a \in Addrs |-> NoNd]
    /\ td = TdOf(EmptyPool({1}, 0, 0), 0)
    /\ ah = 0
    /\ fault = ""
    /\ kv = [k \in Keys |-> 0]
    /\ th = [t \in {1} |-> IdleCtx(t)]
    /\ nops = [t \in {1} |-> 0]
    /\ dels = {}
    /\ pre = [t \in {1} |-> Snapshot(mem, td)]
    /\ eff = kv
    /\ faulter = 0
    /\ ndt = [t \in {1} |-> NdIdle]
    /\ lk = [n_lock |-> [a \in Addrs |-> 0], lru_lock |-> 0]
    /\ dsc = [a \in Addrs |-> [gen |-> 0, live |-> {}]]
    /\ lru = << >>
    /\ pool = EmptyPool({1}, 0, 0)
    /\ \E addr \in SegAddrs :
          \E shift \in {s \in 0..WordBits : node_shift_is_valid(s)} :
             /\ addr_is_aligned(addr)
             /\ seg = [step |-> "in", addr |-> addr, shift |-> shift,
                       as_core |-> {}, r_addr |-> {}, r_shift |-> 0]

\* segaddr_build() with its three M0_POST
SegBuild ==
    /\ seg.step = "in" /\ fault = ""
    /\ LET sa == segaddr_build(seg.addr, seg.shift)
       IN  /\ seg' = [seg EXCEPT !.step = "built", !.as_core = sa]
           /\ fault' =
                IF ~segaddr_is_valid(sa)
                THEN "segaddr_build: M0_POST(segaddr_is_valid)"
                ELSE IF segaddr_addr(sa) # seg.addr
                THEN "segaddr_build: M0_POST(segaddr_addr)"
                ELSE IF segaddr_shift(sa) # seg.shift
                THEN "segaddr_build: M0_POST(segaddr_shift)"
                ELSE ""
    /\ UNCHANGED <<mem, nds, td, ah, th, nops, kv, dels, pre, eff, faulter,
                   ndt, lk, dsc, lru, pool>>

\* a later reader of the word, as node_get() and node_init() are:
\* segaddr_addr() and segaddr_shift()
SegRead ==
    /\ seg.step = "built" /\ fault = ""
    /\ seg' = [seg EXCEPT !.step = "read",
                          !.r_addr = segaddr_addr(seg.as_core),
                          !.r_shift = segaddr_shift(seg.as_core)]
    /\ UNCHANGED <<mem, nds, td, ah, th, fault, nops, kv, dels, pre, eff,
                   faulter, ndt, lk, dsc, lru, pool>>

NextSeg == SegBuild \/ SegRead

SpecSeg == InitSeg /\ [][NextSeg]_vars



(* -------------------------- tree abstractions -------------------------- *)
RECURSIVE Reach(_, _, _)
\* the nodes linked into the tree below (and with) a; d bounds the depth
Reach(m, a, d) ==
    IF d = 0 \/ a \notin Addrs THEN {}
    ELSE IF m[a].level = 0 THEN {a}
    ELSE {a} \cup UNION {Reach(m, m[a].slots[i][2], d - 1) : i \in 1..m[a].used}

TreeNodes == Reach(mem, td.root, td.height)

\* the keys stored in the leaves of the subtree at a
SubtreeKeys(m, a, d) ==
    LET r == TreeRecs(m, a, d) IN {r[i][1] : i \in 1..Len(r)}

\* the keys of node n are strictly ascending
NodeSorted(n) ==
    \A i \in 1..(ff_count(n) - 1) : ff_node_key(n, i - 1) < ff_node_key(n, i)

\* child number i (from 0) of internal node a holds the keys between the
\* delimiting key before it and the one after it
ChildBounded(m, a, i) ==
    \A k \in SubtreeKeys(m, ff_child(m[a], i), m[a].level) :
       /\ i < ff_count(m[a]) => k < ff_node_key(m[a], i)
       /\ i > 0 => k >= ff_node_key(m[a], i - 1)

RECURSIVE WellLevelled(_, _, _)
\* node a has level lv, and so on down to the leaves at level 0
WellLevelled(m, a, lv) ==
    /\ a \in Addrs
    /\ m[a].level = lv
    /\ lv > 0 => \A i \in 1..m[a].used :
                    WellLevelled(m, m[a].slots[i][2], lv - 1)

Done(t) == th[t].phase = "P_DONE" /\ th[t].op # "none"

(* ------------------------------ claims -------------------------------- *)
\* C2: whenever the tree lock is free, the keys of every node of the tree
\* are strictly ascending, and every key in the subtree of a child of an
\* internal node is less than the delimiting key after that child and not
\* less than the delimiting key before it.
C2_KeyOrder ==
    td.lock = 0 =>
       \A a \in TreeNodes :
          /\ NodeSorted(mem[a])
          /\ mem[a].level > 0 =>
                \A i \in 0..(mem[a].used - 1) : ChildBounded(mem, a, i)

\* a put has split the root of a tree that already had internal nodes
C2_Witness ==
    /\ td.lock = 0
    /\ \E t \in DOMAIN th :
          /\ Done(t) /\ th[t].op = "put" /\ th[t].sm_rc = "0"
          /\ pre[t].height = 2 /\ td.height = 3

\* C3: whenever the tree lock is free, every leaf reachable from the root
\* is at the same depth (the height of the tree), every leaf has level 0
\* and the level of an internal node is one more than that of each child.
C3_Balance ==
    td.lock = 0 => WellLevelled(mem, td.root, td.height - 1)

\* a delete has collapsed the root
C3_Witness ==
    /\ td.lock = 0
    /\ \E t \in DOMAIN th :
          /\ Done(t) /\ th[t].op = "del" /\ th[t].sm_rc = "0"
          /\ pre[t].height > td.height

\* the keys of a sequence of records
KeysOf(r) == {r[i][1] : i \in 1..Len(r)}

\* the tree is as it was when the operation of thread t began
Untouched(t) == Snapshot(mem, td) = pre[t]

\* C1: once put(k, v) on an absent key has completed with flag SUCCESS,
\* a later get(k) in EQUAL mode completes with result 0 and delivers
\* (k, v) with flag SUCCESS, whatever puts and deletes of other keys came in
\* between, as long as no delete of k was started.
C1_GetAfterPut ==
    \A t \in DOMAIN th :
       (/\ th[t].op = "get" /\ th[t].dir = "eq"
        /\ kv[th[t].key] # 0 /\ th[t].key \notin dels)
       => /\ fault = ""
          /\ th[t].phase = "P_DONE" =>
                /\ th[t].sm_rc = "0" /\ th[t].flags = "SUCCESS"
                /\ th[t].rkey = th[t].key /\ th[t].rval = kv[th[t].key]

\* a get has delivered a key after a delete of another key has succeeded
C1_Witness ==
    \E t \in DOMAIN th :
       /\ Done(t) /\ th[t].op = "get" /\ th[t].dir = "eq"
       /\ th[t].flags = "SUCCESS" /\ th[t].rval = kv[th[t].key]
       /\ th[t].key \notin dels
       /\ \E k \in dels : kv[k] = 0

\* C7: a del(k) on a tree that does not hold k completes with the callback
\* told KEY_NOT_FOUND and leaves the records and level of every node, the
\* height and the set of allocated nodes as they were; so does the second
\* of two del(k) in a row.
C7_IdempotentDelete ==
    \A t \in DOMAIN th :
       (th[t].op = "del" /\ th[t].key \notin KeysOf(pre[t].recs))
       => /\ fault = ""
          /\ th[t].phase = "P_DONE" =>
                (th[t].flags = "KEY_NOT_FOUND" /\ Untouched(t))

\* the second of two del(k): every key but k is still there, so the tree
\* was loaded with all keys and the first operation deleted k
C7_Witness ==
    \E t \in DOMAIN th :
       /\ Done(t) /\ th[t].op = "del" /\ th[t].flags = "KEY_NOT_FOUND"
       /\ nops[t] = 0
       /\ KeysOf(pre[t].recs) = Keys \ {th[t].key}
       /\ td.height > 1

\* C8: a put of a key the tree holds completes with the callback told
\* KEY_EXISTS and leaves the value of the key, the records of every node,
\* the height and the nodes of the tree as they were.
C8_PutExisting ==
    \A t \in DOMAIN th :
       (th[t].op = "put" /\ th[t].key \in KeysOf(pre[t].recs))
       => /\ fault = ""
          /\ th[t].phase = "P_DONE" =>
                (th[t].flags = "KEY_EXISTS" /\ Untouched(t))

\* a put with another value on a key held by a full leaf of a tree with
\* internal nodes
C8_Witness ==
    \E t \in DOMAIN th :
       /\ Done(t) /\ th[t].op = "put" /\ th[t].flags = "KEY_EXISTS"
       /\ td.height > 1
       /\ \E a \in TreeNodes :
             /\ mem[a].level = 0 /\ mem[a].used = Cap
             /\ \E i \in 1..Cap : /\ mem[a].slots[i][1] = th[t].key
                                   /\ mem[a].slots[i][2] # th[t].val

\* C9: a put on an absent key or a del on a present key whose callback
\* returns a nonzero code c completes with result c, and the records of
\* the tree are those it held when the operation started.
C9_CallbackUndone ==
    \A t \in DOMAIN th :
       (/\ Done(t) /\ th[t].cbrc # "0"
        /\ \/ th[t].op = "put" /\ th[t].key \notin KeysOf(pre[t].recs)
           \/ th[t].op = "del" /\ th[t].key \in KeysOf(pre[t].recs))
       => /\ th[t].sm_rc = th[t].cbrc
          /\ TreeRecs(mem, td.root, td.height) = pre[t].recs

\* C9, for put alone: the failed put of an absent key is undone
C9_PutUndone ==
    \A t \in DOMAIN th :
       (/\ Done(t) /\ th[t].cbrc # "0" /\ th[t].op = "put"
        /\ th[t].key \notin KeysOf(pre[t].recs))
       => /\ th[t].sm_rc = th[t].cbrc
          /\ TreeRecs(mem, td.root, td.height) = pre[t].recs

\* the record iter must deliver for key k on a tree with records r: the
\* one next to k in direction dir, << >> past the boundary
Neighbour(r, k, dir) ==
    LET far == {i \in 1..Len(r) : IF dir = "next" THEN r[i][1] > k
                                                   ELSE r[i][1] < k}
    IN  IF far = {} THEN << >>
        ELSE r[CHOOSE i \in far :
                  \A j \in far : IF dir = "next" THEN r[i][1] <= r[j][1]
                                                  ELSE r[i][1] >= r[j][1]]

\* C4: on a quiescent tree with key set S, iter with NEXT (PREV) on a key
\* of S delivers the next larger (smaller) key of S with its value, and
\* past the largest (smallest) key the flag KEY_BTREE_BOUNDARY; so a walk
\* from the minimum (maximum) visits every key once, in order, and ends
\* with exactly one boundary callback.
C4_IterationLaw ==
    \A t \in DOMAIN th :
       (/\ Done(t) /\ th[t].op = "iter"
        /\ th[t].key \in KeysOf(pre[t].recs))
       => LET nb == Neighbour(pre[t].recs, th[t].key, th[t].dir)
          IN  IF nb = << >> THEN th[t].flags = "KEY_BTREE_BOUNDARY"
              ELSE /\ th[t].flags = "SUCCESS"
                   /\ th[t].rkey = nb[1] /\ th[t].rval = nb[2]

\* every operation that was started has reached P_DONE
Quiet == \A t \in DOMAIN th : th[t].phase = "P_DONE"

\* the key-order and balance invariants
OrderedBalanced ==
    /\ WellLevelled(mem, td.root, td.height - 1)
    /\ \A a \in TreeNodes :
          /\ NodeSorted(mem[a])
          /\ mem[a].level > 0 =>
                \A i \in 0..(mem[a].used - 1) : ChildBounded(mem, a, i)

C6_PutCompletes ==
    \A t \in DOMAIN th :
       (/\ th[t].op = "put"
        /\ th[t].key \notin KeysOf(pre[t].recs)
        /\ \A u \in DOMAIN th \ {t} :
              th[u].op = "none" \/ th[u].key # th[t].key)
       => /\ faulter # t
          /\ th[t].phase = "P_DONE" =>
                th[t].sm_rc = "0" /\ th[t].flags = "SUCCESS"

\* a thread is inside node_get(), node_put() or node_free() on node a
NdInside(a) == \E t \in DOMAIN ndt : ndt[t].pc # "idle" /\ ndt[t].a = a

\* C10: whenever no thread is inside node_get, node_put or node_free on a
\* node descriptor, the descriptor is either on its tree's active list with
\* n_ref > 0 and n_tree set, or on the LRU list with n_ref = 0,
\* n_delayed_free false and n_tree NULL, and not both.
C10_Membership ==
    \A a \in Addrs :
       (nds[a].exists /\ ~NdInside(a)) =>
          LET onactive == /\ nds[a].list = "active" /\ nds[a].n_ref > 0
                          /\ nds[a].n_tree
              onlru    == /\ nds[a].list = "lru" /\ nds[a].n_ref = 0
                          /\ ~nds[a].n_delayed_free /\ ~nds[a].n_tree
          IN  (onactive \/ onlru) /\ ~(onactive /\ onlru)

\* the threads that were given descriptor number i of node a and have not
\* dropped their reference on it
NdReferrers(a, i) ==
    {t \in DOMAIN ndt :
        \/ /\ <<a, i>> \in ndt[t].held
           /\ ~(ndt[t].a = a /\ ndt[t].nd = i
                /\ ndt[t].pc \in {"put_act_del", "put_lru_add", "put_clr",
                                  "put_chk", "free_fini", "free_chk"})
        \/ /\ ndt[t].a = a /\ ndt[t].nd = i
           /\ ndt[t].pc \in {"get_lru_del", "get_act_add", "get_set_tree",
                             "get_link"}}

NdAsksLru == {"get_lru_del", "put_lru_add", "get_lru"}
NdAsksTree == {"get_act_add", "put_act_del", "get_link"}

\* C12: locks are taken in the order lru_lock, tree lock, node lock: no
\* thread asks for lru_lock or a tree lock while it holds a node lock, and
\* none asks for lru_lock while it holds a tree lock.
C12_LockOrder ==
    \A t \in DOMAIN ndt :
       /\ ndt[t].pc \in NdAsksLru \cup NdAsksTree =>
             \A a \in Addrs : lk.n_lock[a] # t
       /\ ndt[t].pc \in NdAsksLru => td.lock # t

\* C15: the memory of a node and its descriptor are released once, and
\* only when n_ref is 0 and n_delayed_free is set: no descriptor is freed
\* while a thread that was given it has not returned it, whatever the
\* interleaving of node_free and node_put.
C15_PhysicalFree ==
    \A t \in DOMAIN ndt :
       \A p \in ndt[t].held : p[2] \in dsc[p[1]].live

\* C13: an operation started without BOF_LOCKALL makes MAX_TRIALS attempts
\* without the tree lock held across the descent and holds it from the
\* next attempt on; it completes with ETOOMANYREFS only when MAX_TRIALS
\* attempts under the lock have failed as well, that is after
\* 2 * MAX_TRIALS failed CHECKs (i_trial counts them), never earlier.
C13_RestartPolicy ==
    \A t \in DOMAIN th :
       th[t].op # "none" =>
          /\ th[t].lockall <=> th[t].i_trial >= MAX_TRIALS
          /\ th[t].sm_rc = "ETOOMANYREFS" => th[t].i_trial = 2 * MAX_TRIALS

\* C14: when no operation is in progress every reference an operation
\* took in any of its descents has been released: n_ref of every
\* descriptor is what it was before the operations, 1 for the root (the
\* tree's reference) and 0 for every other node.
C14_NoLeak ==
    (Quiet /\ fault = "") =>
       \A a \in Addrs :
          nds[a].exists => nds[a].n_ref = (IF a = td.root THEN 1 ELSE 0)

\* C20: m0_btree_lrulist_purge(count) frees at most count descriptors, only
\* descriptors that are on the LRU list and have n_ref 0, the ones at the
\* tail of the list first, and leaves the other descriptors and the rest
\* of the list as they were.
C20_PurgeFrame ==
    [][\A t \in DOMAIN ndt :
          (ndt[t].pc = "purge" /\ ndt'[t].pc = "idle") =>
             LET F == {a \in Addrs : dsc'[a].live # dsc[a].live}
                 n == Len(lru) - Len(lru')
             IN  /\ Cardinality(F) <= ndt[t].count
                 /\ \A a \in F : nds[a].list = "lru" /\ nds[a].n_ref = 0
                 /\ lru' = SubSeq(lru, 1, Len(lru) - n)
                 /\ F = {lru[i] : i \in (Len(lru) - n + 1)..Len(lru)}
                 /\ \A a \in Addrs \ F : nds'[a] = nds[a]]_vars

\* C16: reference counts never go below zero: whatever way creates, opens,
\* closes, gets, puts, deletes and iterations of the threads interleave,
\* every decrement in node_refcnt_update() finds n_ref > 0, so its
\* assertion never fails
C16_RefcountNeverNegative ==
    /\ fault # "node_refcnt_update: n_ref == 0"
    /\ \A a \in Addrs : nds[a].n_ref >= 0

\* a close has put the root of its tree, taking n_ref to zero, in a run
\* where another thread has completed an operation on the keys of that tree
C16_Witness ==
    \E t, u \in DOMAIN th :
       /\ t # u /\ fault = ""
       /\ th[t].op = "close" /\ th[t].phase = "P_DONE" /\ th[t].sm_rc = "0"
       /\ th[u].op \in {"put", "del", "get", "iter"} /\ th[u].phase = "P_DONE"
       /\ pool.top[u].addr = pool.top[t].addr
       /\ LET a == pool.top[t].addr
          IN  nds[a].exists /\ nds[a].n_ref = 0 /\ nds[a].list = "lru"

\* C17: the tree descriptor pool: after any creates, opens, closes and
\* destroys of trees, no more of them than the pool has slots, bit i of
\* trees_in_use is set exactly when trees[i].t_ref > 0, and trees_loaded
\* is the number of such slots
C17_PoolInvariant ==
    fault = "" =>
       /\ \A i \in Slots :
             (i % WordBits) \in pool.trees_in_use[i \div WordBits]
                <=> pool.trees[i].t_ref > 0
       /\ pool.trees_loaded =
             Cardinality({i \in Slots : pool.trees[i].t_ref > 0})

\* C19: destroy releases everything: when destroy completes on a tree with
\* an empty root and t_ref = 1, the slot is released (t_ref = 0, its bit of
\* trees_in_use clear, trees_loaded one less) and no descriptor of the tree
\* is left with a reference count above zero or on neither list
C19_DestroyReleases ==
    [][\A t \in DOMAIN th :
          LET a == pool.top[t].addr
              s == pool.arbor[a].t_desc
          IN  (/\ th[t].op = "destroy" /\ th[t].phase = "P_INIT"
               /\ th'[t].phase = "P_DONE" /\ fault' = ""
               /\ pool.trees[s].t_ref = 1 /\ ff_count(mem[a]) = 0)
              => /\ pool'.trees[s].t_ref = 0
                 /\ (s % WordBits) \notin pool'.trees_in_use[s \div WordBits]
                 /\ pool'.trees_loaded = pool.trees_loaded - 1
                 /\ \A b \in Addrs :
                       (nds'[b].exists /\ (b = a \/ pool.n_tree[b] = s))
                       => /\ nds'[b].n_ref = 0
                          /\ nds'[b].list \in {"active", "lru"}]_vars

\* C18: close and re-open preserve the tree: once a tree was opened again
\* at its root address after its last close, whatever trees were created,
\* opened or closed in between, a get of a key put before returns it with
\* M0_BSC_SUCCESS and result 0, and a delete of such a key succeeds
C18_ReopenPreserves ==
    \A t \in DOMAIN th :
       (/\ DOMAIN th = {1}
        /\ th[t].op \in {"get", "del"}
        /\ pool.top[t].addr \in pool.reopened
        /\ pool.top[t].had # 0)
       => /\ fault = ""
          /\ th[t].phase = "P_DONE"
             => /\ th[t].sm_rc = "0" /\ th[t].flags = "SUCCESS"
                /\ th[t].op = "get" => th[t].rval = pool.top[t].had

\* every thread among several has put and deleted its whole range and is
\* at P_DONE
ChurnOver ==
    /\ DOMAIN th # {1} /\ fault = ""
    /\ \A t \in DOMAIN th :
          /\ th[t].phase = "P_DONE"
          /\ \A k \in ChurnRange(t) : kv[k] = 0 /\ k \in dels

\* C21: an empty tree has height 1: when several threads have each put the
\* keys of their own range into one tree and then deleted them all, in
\* every interleaving, once all operations are done the tree holds no key,
\* its height is 1, the root has level 0 and no record, and every node
\* other than the root that was allocated has been freed
C21_EmptyAfterChurn ==
    ChurnOver
    => /\ TreeRecs(mem, td.root, td.height) = << >>
       /\ td.height = 1
       /\ mem[td.root].level = 0 /\ mem[td.root].used = 0
       /\ \A a \in Addrs \ {td.root} : ~mem[a].alloc

\* C22: root collapse: after puts followed by deletes, in any order, that
\* leave exactly one key in the tree, the height of the tree is 1 and the
\* key that is left is stored in the root
C22_RootCollapse ==
    (/\ DOMAIN th = {1} /\ fault = "" /\ th[1].phase = "P_DONE"
     /\ Cardinality({k \in Keys : kv[k] # 0}) = 1)
    => /\ td.height = 1
       /\ mem[td.root].level = 0 /\ mem[td.root].used = 1
       /\ kv[mem[td.root].slots[1][1]] # 0

C24_SeqMonotonic ==
    [][\A a \in Addrs :
          (nds[a].exists /\ nds'[a].exists)
          => /\ nds'[a].n_seq >= nds[a].n_seq
             /\ (/\ a \in TreeNodes /\ mem[a].alloc /\ mem'[a].alloc
                 /\ View(mem)[a] # View(mem')[a] /\ td'.lock = 0)
                => nds'[a].n_seq > nds[a].n_seq]_vars

\* the operation of thread t is between its lock_op_init() in P_LOCK or
\* P_LOCKALL and its lock_op_unlock()
InLock(t) ==
    \/ th[t].phase = "P_CHECK"
    \/ /\ th[t].lockall
       /\ th[t].phase \in {"P_DOWN", "P_NEXTDOWN", "P_ALLOC", "P_LOCK",
                           "P_SIBLING", "P_STORE_CHILD"}

\* C25: mutual exclusion: at most one operation at a time is between a
\* successful lock acquisition in P_LOCK or P_LOCKALL and its unlock, and
\* every change of the records or the level of a node linked into the tree
\* and every change of the tree height is made by the thread that holds
\* the write lock of the tree
C25_MutualExclusion ==
    /\ [](\A t, u \in DOMAIN th :
             /\ InLock(t) => td.lock = t
             /\ (InLock(t) /\ InLock(u)) => t = u)
    /\ [][\A t \in DOMAIN th :
             (/\ th'[t] # th[t]
              /\ \/ td'.height # td.height
                 \/ \E a \in TreeNodes : View(mem')[a] # View(mem)[a])
             => td.lock = t]_vars

\* a put or delete that came down under BOF_LOCKALL holds the lock and is
\* about to change the tree, while the put or delete of another thread
\* has finished its descent and asks for the lock
C25_Witness ==
    \E t, u \in DOMAIN th :
       /\ t # u /\ td.lock = t /\ th[t].lockall
       /\ th[t].op \in {"put", "del"} /\ th[t].phase = "P_LOCK"
       /\ th[u].op \in {"put", "del"} /\ th[u].phase = "P_LOCK"
       /\ ~th[u].lockall

\* C30: a descent made under lock-all always passes CHECK when no node is
\* corrupted: once an operation has BOF_LOCKALL (given by the caller or set
\* by escalation) and has taken the tree lock in P_LOCKALL, its CHECK
\* succeeds, so that in no interleaving of get, put, del and iter an
\* operation finishes with too-many-restarts
C30_LockallPasses ==
    /\ [](\A t \in DOMAIN th : th[t].sm_rc # "ETOOMANYREFS")
    /\ [][\A t \in DOMAIN th :
             (th[t].lockall /\ td.lock = t)
             => th'[t].i_trial = th[t].i_trial]_vars

\* C29: per-level array bounds: the index i_used with which an operation
\* writes or reads i_level[] is always smaller than the height the array
\* was allocated for in P_SETUP, in every interleaving; also when another
\* thread splits the root between the P_SETUP and the descent of the
\* operation, and when the P_SETUP of another thread overwrites the height
\* kept in the shared tree handle
C29_LevelBounds ==
    /\ fault \notin {"P_NEXTDOWN: i_level out of bounds",
                     "P_ALLOC: i_level out of bounds",
                     "P_SIBLING: i_level out of bounds",
                     "P_STORE_CHILD: i_level out of bounds",
                     "P_FREENODE: i_level out of bounds",
                     "level_cleanup: i_level out of bounds"}
    /\ \A t \in DOMAIN th :
          th[t].phase \in {"P_NEXTDOWN", "P_ALLOC", "P_LOCK", "P_CHECK",
                           "P_SIBLING", "P_STORE_CHILD", "P_FREENODE"}
          => th[t].i_used < Len(th[t].i_level)


\* C26: segment address round trip: for an address that is a multiple of
\* 512 and below 2^56 and a shift s with 9 <= s < 25, the word that
\* segaddr_build() makes has its reserved bits 0xff000000000001f0 zero,
\* passes the post-conditions of segaddr_build(), and segaddr_addr() and
\* segaddr_shift() read the address and the shift back from it.
C26_SegAddrRoundTrip ==
    (/\ seg.step # "none"
     /\ seg.addr \cap (0..8) = {} /\ seg.addr \cap (56..63) = {}
     /\ seg.shift >= 9 /\ seg.shift < 25)
    => /\ fault = ""
       /\ seg.step \in {"built", "read"}
          => /\ seg.as_core \cap ((4..8) \cup (56..63)) = {}
             /\ seg.as_core = segaddr_build(seg.addr, seg.shift)
       /\ seg.step = "read"
          => /\ seg.r_addr = seg.addr
             /\ seg.r_shift = seg.shift

\* an address with its lowest and its highest admissible bit set, built with
\* the largest shift and read back
C26_Witness ==
    /\ seg.step = "read"
    /\ seg.addr = {9, 55}
    /\ seg.shift = 24
    /\ seg.r_addr = {9, 55} /\ seg.r_shift = 24


\* the thread that holds the lock thread t's next step of node_get() or
\* node_put() asks for (0: the lock is free, or t asks for none)
NdWaitsFor(t) ==
    LET a == ndt[t].a
        h == IF ndt[t].pc \in {"get_lock", "get_ref2", "put_lock"}
             THEN lk.n_lock[a]
             ELSE IF ndt[t].pc \in NdAsksLru THEN lk.lru_lock
             ELSE IF ndt[t].pc \in NdAsksTree THEN td.lock
             ELSE 0
    IN  IF fault # "" \/ h = t THEN 0 ELSE h

\* the threads of the chain of waits that starts at t, n waits long at most
RECURSIVE NdWaitChain(_, _)
NdWaitChain(t, n) ==
    IF n = 0 \/ NdWaitsFor(t) = 0 THEN {}
    ELSE {NdWaitsFor(t)} \cup NdWaitChain(NdWaitsFor(t), n - 1)

\* C28: no state is reachable in which threads wait for one another on node
\* locks, the tree lock and lru_lock in a cycle, also when a thread in a
\* lock-all descent (it holds the tree lock) calls node_get() on a node
\* whose last reference another thread's node_put() is dropping.
C28_NoLockCycle ==
    \A t \in DOMAIN ndt :
       t \notin NdWaitChain(t, Cardinality(DOMAIN ndt))


\* the nodes the CHECK of an operation with context c will compare, each
\* with the sequence number the descent recorded for it: the path down to
\* i_used, for iter the sibling leaf, for del the stored child of the root
CheckedNodes(c) ==
    LET top == IF c.phase = "P_NEXTDOWN" THEN c.i_used - 1
               ELSE IF c.phase \in {"P_ALLOC", "P_SIBLING", "P_STORE_CHILD",
                                    "P_LOCK", "P_CHECK"}
               THEN c.i_used
               ELSE -1
        at(i) == c.i_level[i + 1]
        locked == c.phase \in {"P_LOCK", "P_CHECK"}
    IN  {<<at(i).l_node, at(i).l_seq>> :
            i \in {j \in 0..top : j < Len(c.i_level) /\ at(j).l_node # NoAddr}}
        \cup (IF /\ c.op = "iter" /\ locked /\ c.i_pivot # -1
                 /\ c.i_used < Len(c.i_level)
                 /\ at(c.i_used).l_sibling # NoAddr
              THEN {<<at(c.i_used).l_sibling, at(c.i_used).l_sib_seq>>}
              ELSE {})
        \cup (IF /\ c.op = "del" /\ locked /\ c.i_used > 0
                 /\ 1 < Len(c.i_level) /\ at(1).l_sibling # NoAddr
              THEN {<<at(1).l_sibling, at(1).l_sib_seq>>}
              ELSE {})

\* the comparison of CHECK fails on node e[1] recorded with sequence number
\* e[2]
CheckFailsOn(m, n, e) ==
    ~m[e[1]].alloc \/ ~ff_isvalid(m[e[1]]) \/ ~n[e[1]].exists
    \/ n[e[1]].n_seq # e[2]

\* the step is thread t's CHECK and the path passed it
CheckPassed(t) ==
    /\ th[t].phase = "P_CHECK" \/ (th[t].lockall /\ th[t].phase = "P_LOCK")
    /\ th'[t] # th[t]
    /\ th'[t].i_trial = th[t].i_trial
    /\ fault' = ""

Spares(c) ==
    ({c.i_level[i].l_alloc : i \in 1..Len(c.i_level)} \cup {c.i_extra_node})
    \ {NoAddr}

C32_NoEmptyNodes ==
    td.lock = 0 =>
       /\ \A a \in TreeNodes :
             (a # td.root \/ mem[a].level > 0) => mem[a].used >= 1
       /\ \A a \in Addrs : nds[a].exists => ~nds[a].skip


\* C33: the height matches the root: whenever the tree lock is free and the
\* tree descriptor is in use (no create, open, close or destroy is under
\* way), t_height of the descriptor is the level of the root node plus one:
\* after create, after root splits, collapses and emptyings, and after a
\* close followed by an open, whichever tree used the slot before.
C33_HeightMatchesRoot ==
    (/\ fault = ""
     /\ \A t \in DOMAIN th :
           th[t].op \in {"create", "open", "close", "destroy"}
           => th[t].phase = "P_DONE")
    => \A s \in Slots :
          (pool.trees[s].t_ref > 0 /\ pool.trees[s].lock = 0)
          => /\ pool.trees[s].t_root \in Addrs
             /\ mem[pool.trees[s].t_root].alloc
             /\ pool.trees[s].t_height = mem[pool.trees[s].t_root].level + 1


\* C34: no dangling back-pointer: once m0_btree_lrulist_purge() or a delayed
\* free has freed a descriptor, no node_get() for the address of its node
\* reads or returns the freed descriptor: the pointer in the node header is
\* followed only while it refers to a live descriptor, also when the purge
\* runs while a node_get() revives the descriptor from the LRU list.
C34_NoDanglingBackPointer ==
    /\ fault # "node_get: freed descriptor"
    /\ \A t \in DOMAIN ndt :
          ndt[t].pc \in {"get_lock", "get_lru_del", "get_act_add",
                         "get_set_tree", "get_ref2", "get_link"}
          => ndt[t].nd \in dsc[ndt[t].a].live


(* ------------------------- the table of states -------------------------- *)
\* btree_states[s].sd_allowed
sd_allowed(s) ==
    CASE s = "P_INIT" -> {"P_COOKIE", "P_SETUP", "P_ACT", "P_DONE"}
      [] s = "P_COOKIE" -> {"P_LOCK", "P_SETUP"}
      [] s = "P_SETUP" -> {"P_LOCKALL", "P_CLEANUP"}
      [] s = "P_LOCKALL" -> {"P_DOWN", "P_NEXTDOWN"}
      [] s = "P_DOWN" -> {"P_NEXTDOWN"}
      [] s = "P_NEXTDOWN" -> {"P_NEXTDOWN", "P_ALLOC", "P_STORE_CHILD",
                              "P_CLEANUP", "P_SETUP", "P_LOCK", "P_SIBLING"}
      [] s = "P_SIBLING" -> {"P_SIBLING", "P_LOCK", "P_CLEANUP"}
      [] s = "P_ALLOC" -> {"P_ALLOC", "P_LOCK", "P_CLEANUP", "P_SETUP"}
      [] s = "P_STORE_CHILD" -> {"P_CHECK", "P_CLEANUP", "P_LOCKALL",
                                 "P_FREENODE"}
      [] s = "P_LOCK" -> {"P_CHECK", "P_CLEANUP", "P_LOCKALL", "P_FREENODE"}
      [] s = "P_CHECK" -> {"P_CLEANUP", "P_LOCKALL", "P_FREENODE"}
      [] s = "P_MAKESPACE" -> {"P_CLEANUP"}
      [] s = "P_ACT" -> {"P_FREENODE", "P_CLEANUP", "P_DONE"}
      [] s = "P_FREENODE" -> {"P_FREENODE", "P_CLEANUP", "P_FINI"}
      [] s = "P_CLEANUP" -> {"P_SETUP", "P_FINI", "P_INIT"}
      [] s = "P_FINI" -> {"P_DONE"}
      [] s = "P_TIMECHECK" -> {"P_TIMECHECK"}
      [] OTHER -> {}

\* C35: every change of state a tick of get, put, del, iter, create, open,
\* close or destroy makes goes from a state s to a state of
\* btree_states[s].sd_allowed, and no tick runs in P_DONE
C35_TransitionsFollowTable ==
    [][\A t \in DOMAIN th :
          (th'[t] # th[t] /\ ~(th[t].phase = "P_DONE" /\ th'[t].phase = "P_INIT"))
          => th'[t].phase \in sd_allowed(th[t].phase)]_vars


(* ---------------------- closing a tree that is in use ------------------ *)
\* m0_btree_close() while operations of other threads are under way on the
\* tree: btree_close_tree_tick() waits in P_TIMECHECK for their nodes

\* key operations of each thread, and closes and opens between them
MaxCloseOps == 1
MaxCloseTreeOps == 2

CloseLoads == {ut_asc(Cap + 1)}

\* the pool after one m0_btree_create() and the puts that left L
LoadedPool(T, L) ==
    LET E == EmptyPool(T, 0, MaxCloseTreeOps)
        root == L.S.td.root
    IN  [E EXCEPT
           !.trees[0] = [t_ref |-> 1, t_root |-> root,
                         t_height |-> L.S.td.height, lock |-> 0],
           !.trees_in_use[0] = {0},
           !.trees_loaded = 1,
           !.n_tree = [a \in Addrs |->
                         IF L.S.nds[a].exists /\ L.S.nds[a].n_tree
                         THEN 0 ELSE NoTree],
           !.act[0] = {a \in Addrs : L.S.nds[a].exists
                                     /\ L.S.nds[a].list = "active"},
           !.arbor[root] = [t_desc |-> 0, t_height |-> L.S.ah],
           !.opens[root] = 1,
           !.made = {root},
           !.kvs[root] = L.kv]

InitClose ==
    \E ks \in CloseLoads :
       \E L \in {Loaded(ks)} :
           /\ mem = L.S.mem /\ nds = L.S.nds
           /\ td = TdOf(EmptyPool(1..NThreads, 0, 0), 0)
           /\ ah = 0
           /\ fault = ""
           /\ kv = [k \in Keys |-> 0]
           /\ th = [t \in 1..NThreads |-> IdleCtx(t)]
           /\ nops = [t \in 1..NThreads |-> MaxCloseOps]
           /\ dels = {}
           /\ pre = [t \in 1..NThreads |-> Snapshot(L.S.mem, L.S.td)]
           /\ eff = kv
           /\ faulter = 0
           /\ ndt = [t \in 1..NThreads |-> NdIdle]
           /\ lk = [n_lock |-> [a \in Addrs |-> 0], lru_lock |-> 0]
           /\ dsc = [a \in Addrs |-> [gen |-> 0, live |-> {}]]
           /\ lru = << >>
           /\ pool = LoadedPool(1..NThreads, L)
           /\ seg = NoSeg

\* the close of the last reference; nothing in m0_btree_close() asks that
\* the operations on the tree are over
CloseBusy(t) ==
    \E a \in pool.made :
       /\ pool.opens[a] = 1 /\ a \in PoolBusy(t)
       /\ TreeCall(t, "close", a, -1)

NextClose ==
    \E t \in DOMAIN th :
       \/ CloseBusy(t) \/ Close(t) \/ Open(t) \/ TreeTick(t)
       \/ PutP(t) \/ DelP(t) \/ GetP(t) \/ IterP(t) \/ KvTick(t)

SpecClose == InitClose /\ [][NextClose]_vars


MaxTpOps == 2

TpIdle(n) == [NdIdle EXCEPT !.count = n]

InitTp ==
    \E r \in [1..NThreads -> 0..1] :
       LET n == Cardinality({t \in 1..NThreads : r[t] = 1})
       IN  /\ n > 0
           /\ mem = CreatedTree.mem /\ nds = CreatedTree.nds
           /\ td = [CreatedTree.td EXCEPT !.t_ref = n]
           /\ ah = 0
           /\ fault = ""
           /\ kv = [k \in Keys |-> 0]
           /\ th = [t \in 1..NThreads |-> IdleCtx(t)]
           /\ nops = [t \in 1..NThreads |-> MaxTpOps]
           /\ dels = {}
           /\ pre = [t \in 1..NThreads |-> Snapshot(mem, td)]
           /\ eff = kv
           /\ faulter = 0
           /\ ndt = [t \in 1..NThreads |-> TpIdle(r[t])]
           /\ lk = [n_lock |-> [a \in Addrs |-> 0], lru_lock |-> 0,
                    trees_lock |-> 0, t_init |-> TRUE]
           /\ dsc = [a \in Addrs |-> [gen |-> 0, live |-> {}]]
           /\ lru = << >>
           /\ pool = [EmptyPool(1..NThreads, 0, 0) EXCEPT
                         !.trees_in_use[0] = {0}, !.trees_loaded = 1]
           /\ seg = NoSeg

TpRest == <<mem, ah, th, kv, dels, pre, eff, dsc, lru, seg>>

TpGoto(t, pc) == ndt' = [ndt EXCEPT ![t].pc = pc]

TpFault(t, msg) ==
    /\ fault' = msg /\ faulter' = t
    /\ UNCHANGED <<nds, td, nops, ndt, lk, pool>>

\* m0_btree_open(): btree_open_tree_tick() calls tree_get()
TpOpen(t) ==
    /\ fault = "" /\ ndt[t].pc = "idle" /\ nops[t] > 0
    /\ nops' = [nops EXCEPT ![t] = @ - 1]
    /\ TpGoto(t, "get_trees_lock")
    /\ UNCHANGED <<nds, td, fault, faulter, lk, pool>>

\* m0_rwlock_write_lock(&trees_lock), and the look-up of the descriptor
TpGetTreesLock(t) ==
    /\ fault = "" /\ ndt[t].pc = "get_trees_lock" /\ lk.trees_lock = 0
    /\ lk' = [lk EXCEPT !.trees_lock = t]
    /\ TpGoto(t, IF pool.trees_loaded > 0 /\ nds[td.root].exists
                    /\ nds[td.root].n_tree
                 THEN "get_t_lock" ELSE "get_assign")
    /\ UNCHANGED <<nds, td, fault, faulter, nops, pool>>

\* m0_rwlock_write_lock(&tree->t_lock) of the descriptor found
TpGetTLock(t) ==
    /\ fault = "" /\ ndt[t].pc = "get_t_lock"
    /\ IF ~lk.t_init
       THEN TpFault(t, "mem_tree_get: lock of t_lock after m0_rwlock_fini")
       ELSE /\ td.lock = 0
            /\ td' = [td EXCEPT !.lock = t]
            /\ TpGoto(t, "get_ref")
            /\ UNCHANGED <<nds, fault, faulter, nops, lk, pool>>

\* t_ref++ and the two unlocks
TpGetRef(t) ==
    /\ fault = "" /\ ndt[t].pc = "get_ref"
    /\ td' = [td EXCEPT !.t_ref = @ + 1, !.lock = 0]
    /\ lk' = [lk EXCEPT !.trees_lock = 0]
    /\ ndt' = [ndt EXCEPT ![t] = TpIdle(@.count + 1)]
    /\ UNCHANGED <<nds, fault, faulter, nops, pool>>

\* "Assign a free tree descriptor to this tree": every lock call of this
\* part is made under trees_lock on a lock initialised here.  The slot of
\* the tree is the lowest one; while its bit is still set the caller is
\* given the next slot, a descriptor with a lock of its own that is not
\* followed
TpGetAssign(t) ==
    /\ fault = "" /\ ndt[t].pc = "get_assign"
    /\ IF 0 \in pool.trees_in_use[0]
       THEN /\ pool' = [pool EXCEPT !.trees_in_use[0] = @ \cup {1},
                                    !.trees_loaded = @ + 1]
            /\ lk' = [lk EXCEPT !.trees_lock = 0]
            /\ TpGoto(t, "idle")
            /\ UNCHANGED <<nds, td, fault, faulter, nops>>
       ELSE IF td.t_ref # 0 THEN TpFault(t, "mem_tree_get: t_ref == 0")
       ELSE /\ pool' = [pool EXCEPT !.trees_in_use[0] = @ \cup {0},
                                    !.trees_loaded = @ + 1]
            /\ td' = [td EXCEPT !.t_ref = 1, !.lock = 0]
            /\ nds' = [nds EXCEPT ![td.root].n_ref = @ + 1,
                                  ![td.root].list = "active",
                                  ![td.root].n_tree = TRUE]
            /\ lk' = [lk EXCEPT !.trees_lock = 0, !.t_init = TRUE]
            /\ ndt' = [ndt EXCEPT ![t] = TpIdle(@.count + 1)]
            /\ UNCHANGED <<fault, faulter, nops>>

\* m0_btree_close(): btree_close_tree_tick() up to its call of tree_put();
\* on the last reference it puts the root first
TpClose(t) ==
    /\ fault = "" /\ ndt[t].pc = "idle" /\ ndt[t].count > 0 /\ nops[t] > 0
    /\ nops' = [nops EXCEPT ![t] = @ - 1]
    /\ ndt' = [ndt EXCEPT ![t].pc = "put_t_lock", ![t].count = @ - 1]
    /\ IF td.t_ref = 0
       THEN /\ fault' = "btree_close_tree_tick: t_ref != 0" /\ faulter' = t
            /\ UNCHANGED nds
       ELSE /\ UNCHANGED <<fault, faulter>>
            /\ IF td.t_ref > 1 \/ nds[td.root].n_ref = 0 THEN UNCHANGED nds
               ELSE /\ nds[td.root].n_ref > 1 \/ td.lock = 0
                    /\ nds' = [nds EXCEPT
                                 ![td.root].n_ref = @ - 1,
                                 ![td.root].list =
                                     IF nds[td.root].n_ref = 1 THEN "lru" ELSE @,
                                 ![td.root].n_tree =
                                     IF nds[td.root].n_ref = 1 THEN FALSE ELSE @]
    /\ UNCHANGED <<td, lk, pool>>

\* m0_rwlock_write_lock(&tree->t_lock) of mem_tree_put()
TpPutTLock(t) ==
    /\ fault = "" /\ ndt[t].pc = "put_t_lock"
    /\ IF ~lk.t_init
       THEN TpFault(t, "mem_tree_put: lock of t_lock after m0_rwlock_fini")
       ELSE /\ td.lock = 0
            /\ td' = [td EXCEPT !.lock = t]
            /\ TpGoto(t, "put_dec")
            /\ UNCHANGED <<nds, fault, faulter, nops, lk, pool>>

\* the assertions and tree->t_ref--
TpPutDec(t) ==
    /\ fault = "" /\ ndt[t].pc = "put_dec"
    /\ IF td.t_ref = 0 THEN TpFault(t, "mem_tree_put: t_ref > 0")
       ELSE /\ td' = [td EXCEPT !.t_ref = @ - 1]
            /\ TpGoto(t, IF td.t_ref = 1 THEN "put_trees_lock" ELSE "put_unlock")
            /\ UNCHANGED <<nds, fault, faulter, nops, lk, pool>>

\* m0_rwlock_write_lock(&trees_lock), taken while t_lock is held
TpPutTreesLock(t) ==
    /\ fault = "" /\ ndt[t].pc = "put_trees_lock" /\ lk.trees_lock = 0
    /\ lk' = [lk EXCEPT !.trees_lock = t]
    /\ TpGoto(t, "put_fini")
    /\ UNCHANGED <<nds, td, fault, faulter, nops, pool>>

\* the slot is given back; t_lock is unlocked and finalised, trees_lock
\* unlocked
TpPutFini(t) ==
    /\ fault = "" /\ ndt[t].pc = "put_fini"
    /\ IF pool.trees_loaded = 0 THEN TpFault(t, "mem_tree_put: trees_loaded > 0")
       ELSE /\ pool' = [pool EXCEPT !.trees_in_use[0] = @ \ {0},
                                    !.trees_loaded = @ - 1]
            /\ td' = [td EXCEPT !.lock = 0]
            /\ lk' = [lk EXCEPT !.trees_lock = 0, !.t_init = FALSE]
            /\ TpGoto(t, "put_unlock")
            /\ UNCHANGED <<nds, fault, faulter, nops>>

\* the m0_rwlock_write_unlock(&tree->t_lock) that ends mem_tree_put().  On
\* a lock that is finalised or that the thread does not hold the call is
\* undefined: it is taken to stop the program, to do nothing, or to
\* release the lock whoever holds it
TpPutUnlock(t) ==
    /\ fault = "" /\ ndt[t].pc = "put_unlock"
    /\ IF lk.t_init /\ td.lock = t
       THEN /\ td' = [td EXCEPT !.lock = 0]
            /\ TpGoto(t, "idle")
            /\ UNCHANGED <<fault, faulter>>
       ELSE \/ /\ fault' = "mem_tree_put: unlock of t_lock not held"
               /\ faulter' = t
               /\ UNCHANGED <<td, ndt>>
            \/ /\ td' \in {td, [td EXCEPT !.lock = 0]}
               /\ TpGoto(t, "idle")
               /\ UNCHANGED <<fault, faulter>>
    /\ UNCHANGED <<nds, nops, lk, pool>>

NextTp ==
    \E t \in DOMAIN th :
       /\ \/ TpOpen(t) \/ TpGetTreesLock(t) \/ TpGetTLock(t) \/ TpGetRef(t)
          \/ TpGetAssign(t)
          \/ TpClose(t) \/ TpPutTLock(t) \/ TpPutDec(t) \/ TpPutTreesLock(t)
          \/ TpPutFini(t) \/ TpPutUnlock(t)
       /\ UNCHANGED TpRest

SpecTp == InitTp /\ [][NextTp]_vars

\* t waits for a lock that u holds
TpWaitsFor(t, u) ==
    \/ ndt[t].pc \in {"get_t_lock", "put_t_lock"} /\ td.lock = u
    \/ ndt[t].pc \in {"get_trees_lock", "put_trees_lock"} /\ lk.trees_lock = u

\* C37: every unlock of t_lock mem_tree_put() makes is made by the holder
\* on an initialised lock, so on the last reference the lock is unlocked
\* once and not used after m0_rwlock_fini(); and tree_put() and tree_get()
\* take t_lock and trees_lock in one order, so no open and close wait for
\* each other
C37_TreePutLockDiscipline ==
    /\ \A t \in DOMAIN ndt :
          ndt[t].pc = "put_unlock" => lk.t_init /\ td.lock = t
    /\ \A t \in DOMAIN ndt :
          ndt[t].pc \in {"get_t_lock", "put_t_lock"} => lk.t_init
    /\ \A t, u \in DOMAIN ndt :
          ~(t # u /\ TpWaitsFor(t, u) /\ TpWaitsFor(u, t))


(* ------------------ node operations on their own ---------------------- *)
\* node_move(), node_find() and node_isunderflow() applied to two sibling
\* nodes at addresses 1 (the left one) and 2 (the right one), as the unit
\* tests of the node functions apply them to nodes they filled themselves

\* calls made on one pair of nodes, and the largest count asked of a move
MaxFfOps == 1
MaxNr == 2

RECURSIVE AscOf(_)
\* the keys of K in ascending order, each with its value
AscOf(K) ==
    IF K = {} THEN << >>
    ELSE LET m == CHOOSE k \in K : \A j \in K : k <= j
         IN  <<<<m, ut_val(m)>>>> \o AscOf(K \ {m})

\* a node of the given level holding the records recs
FfImage(level, recs) ==
    [ff_init EXCEPT !.level = level, !.used = Len(recs),
                    !.slots = [i \in 1..Cap |->
                                 IF i <= Len(recs) THEN recs[i] ELSE ZeroRec]]

\* the records a node holds, in slot order
FfRecs(n) == [i \in 1..n.used |-> n.slots[i]]

FfIdle == [pc |-> "idle", op |-> "none", a |-> NoAddr, dir |-> 0, nr |-> 0,
           key |-> 0, predict |-> FALSE, n |-> FreeMem, res |-> << >>]

\* two siblings with ascending keys; a node above the leaves holds a record
InitFf ==
    \E K \in SUBSET Keys, level \in 0..1 :
    \E cut \in 0..Cardinality(K) :
       LET recs == AscOf(K)
           nd1 == [exists |-> TRUE, n_ref |-> 1, n_seq |-> TimeNow,
                   n_delayed_free |-> FALSE, list |-> "active",
                   n_tree |-> TRUE, skip |-> FALSE]
       IN  /\ cut <= Cap /\ Len(recs) - cut <= Cap
           /\ level > 0 => cut >= 1 /\ Len(recs) - cut >= 1
           /\ mem = [a \in Addrs |->
                       IF a = 1 THEN FfImage(level, SubSeq(recs, 1, cut))
                       ELSE IF a = 2
                       THEN FfImage(level, SubSeq(recs, cut + 1, Len(recs)))
                       ELSE FreeMem]
           /\ nds = [a \in Addrs |-> IF a \in {1, 2} THEN nd1 ELSE NoNd]
           /\ td = CreatedTree.td
           /\ ah = 0
           /\ fault = ""
           /\ kv = [k \in Keys |-> 0]
           /\ th = [t \in {1} |-> IdleCtx(t)]
           /\ nops = [t \in {1} |-> MaxFfOps]
           /\ dels = {}
           /\ pre = [t \in {1} |-> Snapshot(mem, td)]
           /\ eff = kv
           /\ faulter = 0
           /\ ndt = [t \in {1} |-> FfIdle]
           /\ lk = [n_lock |-> [a \in Addrs |-> 0], lru_lock |-> 0]
           /\ dsc = [a \in Addrs |-> [gen |-> 0, live |-> {}]]
           /\ lru = << >>
           /\ pool = EmptyPool({1}, 0, 0)
           /\ seg = NoSeg

FfRest == <<kv, dels, pre, eff, lk, dsc, lru, pool, seg>>

FfFree(t) == fault = "" /\ ndt[t].pc \in {"idle", "done"} /\ nops[t] > 0

\* node_move(src, tgt, dir, nr) is called: D_LEFT moves from the right node
\* to the left one, D_RIGHT from the left node to the right one
FfMoveCall(t) ==
    /\ FfFree(t)
    /\ \E dir \in {D_LEFT, D_RIGHT}, nr \in {NR_EVEN, NR_MAX} \cup 1..MaxNr :
          ndt' = [ndt EXCEPT ![t] = [FfIdle EXCEPT !.pc = "move", !.op = "move",
                                                  !.dir = dir, !.nr = nr]]
    /\ nops' = [nops EXCEPT ![t] = @ - 1]
    /\ UNCHANGED <<mem, nds, td, ah, th, fault, faulter>>

FfMoveRun(t) ==
    /\ fault = "" /\ ndt[t].pc = "move"
    /\ \E S \in {IF ndt[t].dir = D_LEFT
                 THEN node_move(State(t), 2, 1, D_LEFT, ndt[t].nr)
                 ELSE node_move(State(t), 1, 2, D_RIGHT, ndt[t].nr)} :
          /\ Commit(t, S)
          /\ faulter' = IF S.fault # "" THEN t ELSE faulter
    /\ ndt' = [ndt EXCEPT ![t].pc = "done"]
    /\ UNCHANGED nops

\* node_find() on one of the nodes
FfFind(t) ==
    /\ FfFree(t)
    /\ \E a \in {1, 2}, key \in Keys :
          IF ~node_invariant(State(t), a)
          THEN /\ fault' = "node_find: node_invariant" /\ faulter' = t
               /\ UNCHANGED ndt
          ELSE /\ ndt' = [ndt EXCEPT ![t] =
                            [FfIdle EXCEPT !.pc = "done", !.op = "find", !.a = a,
                                           !.key = key, !.n = mem[a],
                                           !.res = ff_find(mem[a], key)]]
               /\ UNCHANGED <<fault, faulter>>
    /\ nops' = [nops EXCEPT ![t] = @ - 1]
    /\ UNCHANGED <<mem, nds, td, ah, th>>

\* node_isunderflow() on one of the nodes
FfIsUnderflow(t) ==
    /\ FfFree(t)
    /\ \E a \in {1, 2}, predict \in BOOLEAN :
          IF ~node_invariant(State(t), a)
          THEN /\ fault' = "node_isunderflow: node_invariant" /\ faulter' = t
               /\ UNCHANGED ndt
          ELSE /\ ndt' = [ndt EXCEPT ![t] =
                            [FfIdle EXCEPT !.pc = "done", !.op = "isunderflow",
                                           !.a = a, !.predict = predict,
                                           !.n = mem[a],
                                           !.res = ff_isunderflow(mem[a], predict)]]
               /\ UNCHANGED <<fault, faulter>>
    /\ nops' = [nops EXCEPT ![t] = @ - 1]
    /\ UNCHANGED <<mem, nds, td, ah, th>>

NextFf ==
    \E t \in DOMAIN ndt :
       /\ FfMoveCall(t) \/ FfMoveRun(t) \/ FfFind(t) \/ FfIsUnderflow(t)
       /\ UNCHANGED FfRest

SpecFf == InitFf /\ [][NextFf]_vars

FfKeys(n) == [i \in 1..ff_count(n) |-> n.slots[i][1]]

\* C39: on a node with strictly ascending keys node_find() sets the index
\* to the lowest one whose key is greater than or equal to the search key,
\* the key count when there is none, and returns true exactly when the
\* node holds the search key; of a node above the leaves only the keys
\* before the last record are searched
C39_FindContract ==
    \A t \in DOMAIN ndt :
       (ndt[t].op = "find" /\ ndt[t].pc = "done")
       => LET ks == FfKeys(ndt[t].n)
              ge == {i \in 1..Len(ks) : ks[i] >= ndt[t].key}
          IN  /\ ndt[t].res.idx =
                    IF ge = {} THEN Len(ks)
                    ELSE (CHOOSE i \in ge : \A j \in ge : i <= j) - 1
              /\ ndt[t].res.found <=> \E i \in 1..Len(ks) : ks[i] = ndt[t].key

\* a search, in a full node above the leaves, for the key of its last
\* record: not found, and the index is the key count
C39_Witness ==
    \E t \in DOMAIN ndt :
       /\ ndt[t].op = "find" /\ ndt[t].pc = "done" /\ fault = ""
       /\ ndt[t].n.level > 0 /\ ndt[t].n.used = Cap
       /\ ndt[t].key = ndt[t].n.slots[Cap][1]
       /\ ~ndt[t].res.found /\ ndt[t].res.idx = Cap - 1

\* C40: node_isunderflow() with predict false answers true exactly for a
\* node without a record, be it a leaf or above the leaves; with predict
\* true it answers what it would answer with predict false once one more
\* record is removed (true as well for a node without a record)
C40_IsUnderflow ==
    \A t \in DOMAIN ndt :
       (ndt[t].op = "isunderflow" /\ ndt[t].pc = "done")
       => LET n == ndt[t].n
          IN  IF ~ndt[t].predict THEN ndt[t].res <=> n.used = 0
              ELSE ndt[t].res <=> (n.used = 0 \/ n.used - 1 = 0)

\* C40 as the specification words it: with predict false true for a leaf
\* exactly when it holds no key, and for a node above the leaves exactly
\* when it holds at most one record
C40_IsUnderflowAsStated ==
    \A t \in DOMAIN ndt :
       (ndt[t].op = "isunderflow" /\ ndt[t].pc = "done" /\ ~ndt[t].predict)
       => LET n == ndt[t].n
          IN  IF n.level = 0 THEN ndt[t].res <=> ff_count(n) = 0
              ELSE ndt[t].res <=> ff_count_rec(n) <= 1

\* the question was asked of a node above the leaves with one record: no
\* underflow now, underflow once one more record is removed
C40_Witness ==
    \E t \in DOMAIN ndt :
       /\ ndt[t].op = "isunderflow" /\ ndt[t].pc = "done" /\ fault = ""
       /\ ndt[t].n.level > 0 /\ ndt[t].n.used = 1
       /\ ndt[t].res = ndt[t].predict

====
